---- MODULE Spec2Model ----
(***************************************************************************)
(* TraceQL fetch over a vParquet block (tempodb/encoding/vparquet):        *)
(* Fetch = checkConditions, openForSearch, fetch (plan), then the result   *)
(* iterator pulled with Next.  The iterator combinators and predicates of  *)
(* pkg/parquetquery and the value types of pkg/traceql are not part of     *)
(* the source tree at hand; they are modelled as the design document       *)
(* describes them (sections 3, 4.1 - 4.4).                                 *)
(***************************************************************************)
EXTENDS Integers, Sequences, FiniteSets, TLC

VARIABLES
    req,        \* traceql.FetchSpansRequest
    opts,       \* common.SearchOptions (StartPage, TotalPages)
    pf,         \* the parquet file: a sequence of row groups, each a sequence of trace rows
    pc,         \* position inside Fetch / the life of the result iterator
    err,        \* error returned by Fetch ("" = nil)
    opened,     \* number of openForSearch calls made
    plan,       \* the iterator tree built by fetch
    cur,        \* number of trace rows the trace iterator has consumed
    results,    \* the spansets returned by Next so far, in order
    openErr,    \* whether the backend fails to open the block file
    ctx,        \* the context passed to mergeSpansetIterator.Next: "live" or "cancelled"
    merge,      \* a mergeSpansetIterator: its iterators and cur
    calls,      \* what the Next calls made after the cancellation returned, in order
    probe,      \* a predicate applied to a value in a page, or a collector applied to a group
    returned,   \* everything the Next calls of the mergeSpansetIterator returned, in order
    inNext,     \* the call of mergeSpansetIterator.Next under way, if any
    slo,        \* the SLO counters of the query frontend and the last call of the post hook
    cli,        \* a run of processBlock of tempo-cli: what it was given and what it did
    bm          \* a backend.BlockMeta and what was added to it

\* The state of Fetch and of the stream it returns.
fetchVars == <<req, opts, pf, pc, err, opened, plan, cur, results, openErr>>
\* The state of a mergeSpansetIterator and of its context.
mergeVars == <<ctx, merge, calls, returned, inNext>>
\* The state of the collaborators of the engine.
otherVars == <<slo, cli, bm>>

vars == <<fetchVars, mergeVars, probe, otherVars>>

(***************************************************************************)
(* Bounds of the model.                                                    *)
(***************************************************************************)
\* Longest condition list of a request.
MaxConds == 2
\* The largest StartPage and TotalPages of the search options.
MaxPage == 3
\* The integers offered to a predicate lie within MaxProbe of zero, or are the
\* least or the greatest of their type.
MaxProbe == 2
\* The most iterators of a mergeSpansetIterator, the most spansets one of them
\* holds, and the most Next calls followed after the cancellation.
MaxIters == 2
MaxLeft == 2
MaxCalls == 3
\* The most entries of a group handed to the attributeCollector.
MaxEntries == 3
\* The most calls of the SLO post hook.
MaxHookCalls == 2
\* The most objects added to a BlockMeta.
MaxObjects == 3
\* Width of the machine words (uint64 / int64 of the source, scaled down).
WordBits == 4

(***************************************************************************)
(* Machine integers.                                                       *)
(***************************************************************************)
WordMod == 2^WordBits
MaxUint64 == WordMod - 1
MaxInt64 == 2^(WordBits - 1) - 1
MinInt64 == -(2^(WordBits - 1))
\* int64(u) for a uint64 u: two's complement reinterpretation.
ToInt64(u) == IF u > MaxInt64 THEN u - WordMod ELSE u
\* uint64(i) for an int64 i.
ToUint64(i) == i % WordMod
\* a - b on uint64 (wraps).
SubUint64(a, b) == (a - b) % WordMod

Min(S) == CHOOSE x \in S : \A y \in S : x <= y

RECURSIVE Flatten(_)
Flatten(ss) == IF ss = <<>> THEN <<>> ELSE Head(ss) \o Flatten(Tail(ss))

(***************************************************************************)
(* pkg/traceql: static types, scopes, intrinsics, operators.               *)
(***************************************************************************)
StaticType ==
    [Nil |-> "nil",
     String |-> "string",
     Int |-> "int",
     Float |-> "float",
     Boolean |-> "bool",
     Duration |-> "duration",
     Status |-> "status"]

AttributeScope ==
    [None |-> "none",
     Resource |-> "resource",
     Span |-> "span",
     Unknown |-> "unknown"]

Intrinsic ==
    [None |-> "none",
     Duration |-> "duration",
     ChildCount |-> "childCount",
     Name |-> "name",
     Status |-> "status"]

Op ==
    [None |-> "none",
     Equal |-> "=",
     NotEqual |-> "!=",
     Regex |-> "=~",
     NotRegex |-> "!~",
     Greater |-> ">",
     GreaterEqual |-> ">=",
     Less |-> "<",
     LessEqual |-> "<=",
     And |-> "&&"]

\* traceql.Status ordinals.
StatusError == 0
StatusOk == 1
StatusUnset == 2

\* OTLP status codes as stored in the StatusCode column.
Status_STATUS_CODE_UNSET == 0
Status_STATUS_CODE_OK == 1
Status_STATUS_CODE_ERROR == 2

\* traceql.Static: a tagged union; the zero value has Type = StaticType.Nil.
StaticZero ==
    [Type |-> StaticType.Nil, N |-> 0, F |-> 0, S |-> "", B |-> FALSE, D |-> 0, Status |-> 0]
NewStaticString(s) == [StaticZero EXCEPT !.Type = StaticType.String, !.S = s]
NewStaticInt(n) == [StaticZero EXCEPT !.Type = StaticType.Int, !.N = n]
NewStaticFloat(f) == [StaticZero EXCEPT !.Type = StaticType.Float, !.F = f]
NewStaticBool(b) == [StaticZero EXCEPT !.Type = StaticType.Boolean, !.B = b]
NewStaticDuration(d) == [StaticZero EXCEPT !.Type = StaticType.Duration, !.D = d]
NewStaticStatus(s) == [StaticZero EXCEPT !.Type = StaticType.Status, !.Status = s]

\* traceql.Attribute constructors.
NewAttribute(scope, name, intrinsic) ==
    [Scope |-> scope, Parent |-> FALSE, Name |-> name, Intrinsic |-> intrinsic]
NewIntrinsic(n) == NewAttribute(AttributeScope.None, n, n)

newSpanAttr(name) == NewAttribute(AttributeScope.Span, name, Intrinsic.None)
newResAttr(name) == NewAttribute(AttributeScope.Resource, name, Intrinsic.None)

Cond(attr, op, operands) == [Attribute |-> attr, Op |-> op, Operands |-> operands]

(***************************************************************************)
(* Well-known labels and column paths.                                     *)
(***************************************************************************)
Label ==
    [ServiceName |-> "service.name",
     Cluster |-> "cluster",
     Namespace |-> "namespace",
     Pod |-> "pod",
     Container |-> "container",
     K8sClusterName |-> "k8s.cluster.name",
     K8sNamespaceName |-> "k8s.namespace.name",
     K8sPodName |-> "k8s.pod.name",
     K8sContainerName |-> "k8s.container.name",
     HTTPStatusCode |-> "http.status_code",
     HTTPMethod |-> "http.method",
     HTTPUrl |-> "http.url"]

columnPath ==
    [TraceID |-> "TraceID",
     StartTimeUnixNano |-> "StartTimeUnixNano",
     DurationNanos |-> "DurationNanos",
     RootSpanName |-> "RootSpanName",
     RootServiceName |-> "RootServiceName",
     ResourceAttrKey |-> "rs.Resource.Attrs.Key",
     ResourceAttrString |-> "rs.Resource.Attrs.Value",
     ResourceAttrInt |-> "rs.Resource.Attrs.ValueInt",
     ResourceAttrDouble |-> "rs.Resource.Attrs.ValueDouble",
     ResourceAttrBool |-> "rs.Resource.Attrs.ValueBool",
     ResourceServiceName |-> "rs.Resource.ServiceName",
     ResourceCluster |-> "rs.Resource.Cluster",
     ResourceNamespace |-> "rs.Resource.Namespace",
     ResourcePod |-> "rs.Resource.Pod",
     ResourceContainer |-> "rs.Resource.Container",
     ResourceK8sClusterName |-> "rs.Resource.K8sClusterName",
     ResourceK8sNamespaceName |-> "rs.Resource.K8sNamespaceName",
     ResourceK8sPodName |-> "rs.Resource.K8sPodName",
     ResourceK8sContainerName |-> "rs.Resource.K8sContainerName",
     SpanID |-> "rs.ils.Spans.ID",
     SpanName |-> "rs.ils.Spans.Name",
     SpanStartTime |-> "rs.ils.Spans.StartUnixNanos",
     SpanEndTime |-> "rs.ils.Spans.EndUnixNanos",
     SpanStatusCode |-> "rs.ils.Spans.StatusCode",
     SpanAttrKey |-> "rs.ils.Spans.Attrs.Key",
     SpanAttrString |-> "rs.ils.Spans.Attrs.Value",
     SpanAttrInt |-> "rs.ils.Spans.Attrs.ValueInt",
     SpanAttrDouble |-> "rs.ils.Spans.Attrs.ValueDouble",
     SpanAttrBool |-> "rs.ils.Spans.Attrs.ValueBool",
     SpanHTTPStatusCode |-> "rs.ils.Spans.HttpStatusCode",
     SpanHTTPMethod |-> "rs.ils.Spans.HttpMethod",
     SpanHTTPURL |-> "rs.ils.Spans.HttpUrl"]

\* Intrinsics that have a default scope (the keys of intrinsicColumnLookups).
intrinsicColumnLookups ==
    [i \in {Intrinsic.Name, Intrinsic.Status, Intrinsic.Duration} |->
        CASE i = Intrinsic.Name ->
                [scope |-> AttributeScope.Span, typ |-> StaticType.String, columnPath |-> columnPath.SpanName]
          [] i = Intrinsic.Status ->
                [scope |-> AttributeScope.Span, typ |-> StaticType.Status, columnPath |-> columnPath.SpanStatusCode]
          [] i = Intrinsic.Duration ->
                [scope |-> AttributeScope.Span, typ |-> StaticType.Duration, columnPath |-> ""]]

\* Lines 71-91: the well-known attributes with dedicated columns.
ResourceColumn(path) ==
    [columnPath |-> path, level |-> AttributeScope.Resource, typ |-> StaticType.String]

wellKnownColumnLookups ==
    [n \in {Label.ServiceName, Label.Cluster, Label.Namespace, Label.Pod, Label.Container,
            Label.K8sClusterName, Label.K8sNamespaceName, Label.K8sPodName,
            Label.K8sContainerName, Label.HTTPStatusCode, Label.HTTPMethod, Label.HTTPUrl} |->
        CASE n = Label.ServiceName -> ResourceColumn(columnPath.ResourceServiceName)
          [] n = Label.Cluster -> ResourceColumn(columnPath.ResourceCluster)
          [] n = Label.Namespace -> ResourceColumn(columnPath.ResourceNamespace)
          [] n = Label.Pod -> ResourceColumn(columnPath.ResourcePod)
          [] n = Label.Container -> ResourceColumn(columnPath.ResourceContainer)
          [] n = Label.K8sClusterName -> ResourceColumn(columnPath.ResourceK8sClusterName)
          [] n = Label.K8sNamespaceName -> ResourceColumn(columnPath.ResourceK8sNamespaceName)
          [] n = Label.K8sPodName -> ResourceColumn(columnPath.ResourceK8sPodName)
          [] n = Label.K8sContainerName -> ResourceColumn(columnPath.ResourceK8sContainerName)
          [] n = Label.HTTPStatusCode ->
                [columnPath |-> columnPath.SpanHTTPStatusCode, level |-> AttributeScope.Span, typ |-> StaticType.Int]
          [] n = Label.HTTPMethod ->
                [columnPath |-> columnPath.SpanHTTPMethod, level |-> AttributeScope.Span, typ |-> StaticType.String]
          [] n = Label.HTTPUrl ->
                [columnPath |-> columnPath.SpanHTTPURL, level |-> AttributeScope.Span, typ |-> StaticType.String]]

(***************************************************************************)
(* checkConditions (block_traceql.go:119).                                 *)
(***************************************************************************)
\* reflect.TypeOf of an operand: every operand is a traceql.Static.
GoTypeOf(operand) == "traceql.Static"

\* One iteration of the loop of checkConditions: the error it returns for cond, or "".
checkCondition_mut(cond) ==
    LET opCount == Len(cond.Operands) IN
    CASE cond.Op = Op.None ->
            IF opCount # 0 THEN "operanion none must have 0 arguments" ELSE ""
      [] cond.Op \in {Op.Equal, Op.NotEqual, Op.Greater, Op.GreaterEqual,
                      Op.Less, Op.LessEqual} ->
            IF opCount # 1 THEN "operation must have exactly 1 argument" ELSE ""
      [] cond.Op = Op.Regex -> ""
      [] OTHER -> "unknown operation"

checkCondition(cond) ==
    LET opCount == Len(cond.Operands) IN
    CASE cond.Op = Op.None ->
            IF opCount # 0 THEN "operanion none must have 0 arguments" ELSE ""
      [] cond.Op \in {Op.Equal, Op.NotEqual, Op.Greater, Op.GreaterEqual,
                      Op.Less, Op.LessEqual, Op.Regex} ->
            IF opCount # 1
            THEN "operation must have exactly 1 argument"
            ELSE IF \E i \in 2..opCount :
                      GoTypeOf(cond.Operands[1]) # GoTypeOf(cond.Operands[i])
                 THEN "operands must be of the same type"
                 ELSE ""
      [] OTHER -> "unknown operation"

\* The error of the first offending condition, "" when every condition passes.
checkConditions(conditions) ==
    LET bad == {i \in 1..Len(conditions) : checkCondition(conditions[i]) # ""} IN
    IF bad = {} THEN "" ELSE checkCondition(conditions[Min(bad)])

\* operandType (block_traceql.go:157).
operandType(operands) ==
    IF Len(operands) > 0 THEN operands[1].Type ELSE StaticType.Nil

(***************************************************************************)
(* Values of parquet columns (segmentio/parquet-go Value).  Kind() of a    *)
(* null value is negative.                                                 *)
(***************************************************************************)
Kind ==
    [Null |-> "Null",
     Boolean |-> "Boolean",
     Int32 |-> "Int32",
     Int64 |-> "Int64",
     Float |-> "Float",
     Double |-> "Double",
     ByteArray |-> "ByteArray"]

PqNull == [Kind |-> Kind.Null, N |-> 0, S |-> "", B |-> FALSE]
PqBytes(s) == [PqNull EXCEPT !.Kind = Kind.ByteArray, !.S = s]
PqInt(n) == [PqNull EXCEPT !.Kind = Kind.Int64, !.N = n]
PqBool(b) == [PqNull EXCEPT !.Kind = Kind.Boolean, !.B = b]
\* A uint64 time column is stored as a parquet INT64.
PqTime(u) == PqInt(ToInt64(u))

IsNull(v) == v.Kind = Kind.Null

(***************************************************************************)
(* pkg/parquetquery predicates, as data.  A nil predicate accepts all.     *)
(***************************************************************************)
NilPredicate == [kind |-> "nil"]
NewStringInPredicate(ss) == [kind |-> "StringIn", ss |-> ss]
NewRegexInPredicate(ss) == [kind |-> "Regex", ss |-> ss]
NewGenericStringPredicate(op, s) == [kind |-> "GenericString", op |-> op, s |-> s]
NewIntPredicate(op, i) == [kind |-> "Int", op |-> op, i |-> i]
NewFloatPredicate(op, i) == [kind |-> "Float", op |-> op, i |-> i]
NewBoolPredicate(b) == [kind |-> "Bool", b |-> b]
NewIntBetweenPredicate(min, max) == [kind |-> "IntBetween", min |-> min, max |-> max]
NewOrPredicate(preds) == [kind |-> "Or", preds |-> preds]

IsNilPredicate(p) == p.kind = "nil"

\* (*parquetquery.GenericPredicate[int64])(nil): what createIntPredicate and
\* createStatusPredicate return for no operator.  As a pointer it compares equal
\* to nil; stored in a parquetquery.Predicate it is an interface value that is
\* not nil.
NilGenericPredicate == [kind |-> "nil pointer"]
IsNilPointer(p) == p.kind = "nil pointer"

\* Unanchored match of the patterns the model uses: ".*" matches every string, any
\* other pattern is a literal and the model's strings do not contain one another.
RegexMatch(pattern, s) == pattern = ".*" \/ pattern = s

\* fn / rangeFn of createIntPredicate and createStatusPredicate (the closures over i).
\* (block_traceql.go:743-764 and 787-808)
IntFn(op, i, v) ==
    CASE op = Op.Equal -> v = i
      [] op = Op.NotEqual -> v # i
      [] op = Op.Greater -> v > i
      [] op = Op.GreaterEqual -> v >= i
      [] op = Op.Less -> v < i
      [] op = Op.LessEqual -> v <= i

IntRangeFn_mut(op, i, min, max) ==
    CASE op = Op.Equal -> min <= i /\ i <= max
      [] op = Op.NotEqual -> min # i /\ max # i
      [] op = Op.Greater -> max > i
      [] op = Op.GreaterEqual -> max >= i
      [] op = Op.Less -> min < i
      [] op = Op.LessEqual -> min <= i

IntRangeFn(op, i, min, max) ==
    CASE op = Op.Equal -> min <= i /\ i <= max
      [] op = Op.NotEqual -> min # i \/ max # i
      [] op = Op.Greater -> max > i
      [] op = Op.GreaterEqual -> max >= i
      [] op = Op.Less -> min < i
      [] op = Op.LessEqual -> min <= i

\* fn / rangeFn of the string != predicate (block_traceql.go:704-714).
StringNotEqualFn(s, v) == v # s
StringNotEqualRangeFn(s, min, max) == min # s \/ max # s

\* KeepValue of a predicate that is not an Or.
\* A nil *GenericPredicate that an or-predicate holds is not the nil predicate
\* and is invoked; it is taken to accept every value, as the nil predicate does.
KeepValueLeaf(p, v) ==
    CASE p.kind = "nil" -> TRUE
      [] p.kind = "nil pointer" -> TRUE
      [] p.kind = "StringIn" -> \E k \in 1..Len(p.ss) : p.ss[k] = v.S
      [] p.kind = "Regex" -> \E k \in 1..Len(p.ss) : RegexMatch(p.ss[k], v.S)
      [] p.kind = "GenericString" -> StringNotEqualFn(p.s, v.S)
      [] p.kind = "Int" -> IntFn(p.op, p.i, v.N)
      [] p.kind = "Float" -> IntFn(p.op, p.i, v.N)
      [] p.kind = "Bool" -> v.B = p.b
      [] p.kind = "IntBetween" -> p.min <= v.N /\ v.N <= p.max

\* Or: true if any child accepts; a nil child accepts everything.
KeepValue(p, v) ==
    IF p.kind = "Or"
    THEN \E k \in 1..Len(p.preds) : KeepValueLeaf(p.preds[k], v)
    ELSE KeepValueLeaf(p, v)

\* KeepPage of a generic predicate: its range function applied to the smallest and
\* the largest value of the page.  A nil predicate keeps every page.
KeepPage(p, min, max) ==
    CASE p.kind = "nil" -> TRUE
      [] p.kind = "nil pointer" -> TRUE
      [] p.kind = "GenericString" -> StringNotEqualRangeFn(p.s, min.S, max.S)
      [] p.kind = "Int" -> IntRangeFn(p.op, p.i, min.N, max.N)

(***************************************************************************)
(* Predicate construction (block_traceql.go:667-874).  Each returns         *)
(* [err, val]; err = "" is a nil error.                                    *)
(***************************************************************************)
Ok(v) == [err |-> "", val |-> v]
Fail(e) == [err |-> e, val |-> NilPredicate]

createStringPredicate(op, operands) ==
    IF op = Op.None THEN Ok(NilPredicate)
    ELSE IF \E k \in 1..Len(operands) : operands[k].Type # StaticType.String
    THEN Fail("operand is not string")
    ELSE LET s == operands[1].S IN
         CASE op = Op.Equal -> Ok(NewStringInPredicate(<<s>>))
           [] op = Op.NotEqual -> Ok(NewGenericStringPredicate(op, s))
           [] op = Op.Regex -> Ok(NewRegexInPredicate(<<s>>))
           [] OTHER -> Fail("operand not supported for strings")

IntOps == {Op.Equal, Op.NotEqual, Op.Greater, Op.GreaterEqual, Op.Less, Op.LessEqual}

createIntPredicate(op, operands) ==
    IF op = Op.None THEN Ok(NilGenericPredicate)
    ELSE IF operands[1].Type \notin {StaticType.Int, StaticType.Duration}
    THEN Fail("operand is not int or duration")
    ELSE LET i == IF operands[1].Type = StaticType.Int THEN operands[1].N ELSE operands[1].D IN
         IF op \in IntOps THEN Ok(NewIntPredicate(op, i))
         ELSE Fail("operand not supported for integers")

\* vparquet.StatusCodeMapping applied to Status.String(): "error" -> 2, "ok" -> 1,
\* "unset" -> 0; every other ordinal prints as "status(n)", which the map lacks.
StatusCodeMapping(status) ==
    CASE status = StatusError -> Status_STATUS_CODE_ERROR
      [] status = StatusOk -> Status_STATUS_CODE_OK
      [] status = StatusUnset -> Status_STATUS_CODE_UNSET
      [] OTHER -> 0

createStatusPredicate(op, operands) ==
    IF op = Op.None THEN Ok(NilGenericPredicate)
    ELSE IF operands[1].Type \notin {StaticType.Int, StaticType.Status}
    THEN Fail("operand is not int or status")
    ELSE LET i == IF operands[1].Type = StaticType.Int THEN operands[1].N
                  ELSE StatusCodeMapping(operands[1].Status) IN
         IF op \in IntOps THEN Ok(NewIntPredicate(op, i))
         ELSE Fail("operand not supported for integers")

createFloatPredicate(op, operands) ==
    IF op = Op.None THEN Ok(NilPredicate)
    ELSE IF operands[1].Type # StaticType.Float THEN Fail("operand is not float")
    ELSE IF op \in IntOps THEN Ok(NewFloatPredicate(op, operands[1].F))
    ELSE Fail("operand not supported for floats")

createBoolPredicate(op, operands) ==
    IF op = Op.None THEN Ok(NilPredicate)
    ELSE IF operands[1].Type # StaticType.Boolean THEN Fail("operand is not bool")
    ELSE CASE op = Op.Equal -> Ok(NewBoolPredicate(operands[1].B))
           [] op = Op.NotEqual -> Ok(NewBoolPredicate(~operands[1].B))
           [] OTHER -> Fail("operand not supported for booleans")

createPredicate(op, operands) ==
    IF op = Op.None THEN Ok(NilPredicate)
    ELSE CASE operands[1].Type = StaticType.String -> createStringPredicate(op, operands)
           [] operands[1].Type = StaticType.Int -> createIntPredicate(op, operands)
           [] operands[1].Type = StaticType.Float -> createFloatPredicate(op, operands)
           [] operands[1].Type = StaticType.Boolean -> createBoolPredicate(op, operands)
           [] OTHER -> Fail("cannot create predicate for operand")

(***************************************************************************)
(* Rows of the block and their columns.                                    *)
(*   trace row : TraceID, StartTimeUnixNano, DurationNanos, RootSpanName,  *)
(*               RootServiceName, rs (the batches)                         *)
(*   batch     : Attrs, ServiceName, Cluster, Spans                        *)
(*   span      : ID, Name, StartUnixNanos, EndUnixNanos, StatusCode,       *)
(*               HttpMethod, HttpUrl, HttpStatusCode, Attrs                *)
(*   attr row  : Key and one value column per primitive type, exactly one  *)
(*               of which is not null                                      *)
(***************************************************************************)
AttrString(k, s) ==
    [Key |-> PqBytes(k), Value |-> PqBytes(s), ValueInt |-> PqNull,
     ValueDouble |-> PqNull, ValueBool |-> PqNull]
AttrInt(k, n) ==
    [Key |-> PqBytes(k), Value |-> PqNull, ValueInt |-> PqInt(n),
     ValueDouble |-> PqNull, ValueBool |-> PqNull]
\* The value of a span-level or resource-level column on a row.
Column(row, path) ==
    CASE path = columnPath.SpanID -> PqBytes(row.ID)
      [] path = columnPath.SpanName -> PqBytes(row.Name)
      [] path = columnPath.SpanStartTime -> PqTime(row.StartUnixNanos)
      [] path = columnPath.SpanEndTime -> PqTime(row.EndUnixNanos)
      [] path = columnPath.SpanStatusCode -> PqInt(row.StatusCode)
      [] path = columnPath.SpanHTTPMethod -> row.HttpMethod
      [] path = columnPath.SpanHTTPURL -> row.HttpUrl
      [] path = columnPath.SpanHTTPStatusCode -> row.HttpStatusCode
      [] path = columnPath.ResourceServiceName -> row.ServiceName
      [] path = columnPath.ResourceCluster -> row.Cluster
      [] path = columnPath.ResourceNamespace -> row.Namespace
      [] path = columnPath.ResourcePod -> row.Pod
      [] path = columnPath.ResourceContainer -> row.Container
      [] path = columnPath.ResourceK8sClusterName -> row.K8sClusterName
      [] path = columnPath.ResourceK8sNamespaceName -> row.K8sNamespaceName
      [] path = columnPath.ResourceK8sPodName -> row.K8sPodName
      [] path = columnPath.ResourceK8sContainerName -> row.K8sContainerName

\* The value of a column of the generic attribute table on an attribute row.
AttrColumn(arow, path) ==
    CASE path \in {columnPath.SpanAttrKey, columnPath.ResourceAttrKey} -> arow.Key
      [] path \in {columnPath.SpanAttrString, columnPath.ResourceAttrString} -> arow.Value
      [] path \in {columnPath.SpanAttrInt, columnPath.ResourceAttrInt} -> arow.ValueInt
      [] path \in {columnPath.SpanAttrDouble, columnPath.ResourceAttrDouble} -> arow.ValueDouble
      [] path \in {columnPath.SpanAttrBool, columnPath.ResourceAttrBool} -> arow.ValueBool

(***************************************************************************)
(* Iterators, as data.                                                     *)
(*   [kind "col", path, pred, as]      makeIter(path, pred, as)            *)
(*   [kind "attr", key, values]        LeftJoin(key; values; attributeCollector) *)
(*   [kind "union", iters]             NewUnionIterator(level, iters, nil) *)
(*   [kind "span"]                     the span iterator, as a child of    *)
(*                                     the resource iterator               *)
(* An IteratorResult is [Entries, OtherEntries]; an entry is [Key, Value]  *)
(* and an other-entry [Key, Kind, Value] with Kind the dynamic type.       *)
(***************************************************************************)
makeIter(path, pred, as) == [kind |-> "col", path |-> path, pred |-> pred, as |-> as]
NewAttrIterator(key, values) == [kind |-> "attr", key |-> key, values |-> values]
NewUnionIterator(iters) == [kind |-> "union", iters |-> iters]
SpanIteratorRef == [kind |-> "span"]

EmptyResult == [Entries |-> <<>>, OtherEntries |-> <<>>]
Produced(r) == Len(r.Entries) + Len(r.OtherEntries) > 0
Merge(a, b) ==
    [Entries |-> a.Entries \o b.Entries, OtherEntries |-> a.OtherEntries \o b.OtherEntries]

RECURSIVE MergeAll(_)
MergeAll(rs) == IF rs = <<>> THEN EmptyResult ELSE Merge(Head(rs), MergeAll(Tail(rs)))

\* A column iterator on one row: the entry, when the predicate keeps the value.
ColEntries(it, v) ==
    IF KeepValue(it.pred, v) THEN <<[Key |-> it.as, Value |-> v]>> ELSE <<>>

\* attributeCollector.KeepGroup (block_traceql.go:1192): the (key, value) pair of
\* the group.  Nulls are skipped; of several values the last one stays.
RECURSIVE attributeCollectorLoop(_, _)
attributeCollectorLoop(kv, entries) ==
    IF entries = <<>> THEN kv
    ELSE LET e == Head(entries)
             next ==
                IF IsNull(e.Value) THEN kv
                ELSE CASE e.Key = "key" -> [kv EXCEPT !.Key = e.Value.S]
                       [] e.Key = "string" -> [kv EXCEPT !.Value = NewStaticString(e.Value.S)]
                       [] e.Key = "int" -> [kv EXCEPT !.Value = NewStaticInt(e.Value.N)]
                       [] e.Key = "float" -> [kv EXCEPT !.Value = NewStaticFloat(e.Value.N)]
                       [] e.Key = "bool" -> [kv EXCEPT !.Value = NewStaticBool(e.Value.B)]
                       [] OTHER -> kv
         IN attributeCollectorLoop(next, Tail(entries))

\* Lines 1192-1223 with the OtherEntries of the group left in place.
attributeCollector_KeepGroup_mut(res) ==
    LET kv == attributeCollectorLoop([Key |-> "", Kind |-> "static", Value |-> StaticZero],
                                     res.Entries)
    IN [keep |-> TRUE, res |-> [Entries |-> <<>>, OtherEntries |-> res.OtherEntries \o <<kv>>]]

attributeCollector_KeepGroup(res) ==
    LET kv == attributeCollectorLoop([Key |-> "", Kind |-> "static", Value |-> StaticZero],
                                     res.Entries)
    IN [keep |-> TRUE, res |-> [Entries |-> <<>>, OtherEntries |-> <<kv>>]]

\* LeftJoin(attrLevel, [key], values, attributeCollector) on one attribute row:
\* a group exists when the key iterator yields the row; the value iterators that
\* yield it are attached.
AttrRowResult(it, arow) ==
    LET keyE == ColEntries(it.key, AttrColumn(arow, it.key.path))
        valE == Flatten([k \in 1..Len(it.values) |->
                            ColEntries(it.values[k], AttrColumn(arow, it.values[k].path))])
    IN IF keyE = <<>> THEN EmptyResult
       ELSE attributeCollector_KeepGroup([Entries |-> keyE \o valE, OtherEntries |-> <<>>]).res

\* The attribute iterator on the attribute rows of one span or batch.
AttrResult(it, arows) ==
    MergeAll([k \in 1..Len(arows) |-> AttrRowResult(it, arows[k])])

\* A column or attribute iterator on one span or batch row.
LeafResult(it, row) ==
    IF it.kind = "col"
    THEN [Entries |-> ColEntries(it, Column(row, it.path)), OtherEntries |-> <<>>]
    ELSE AttrResult(it, row.Attrs)

\* Union: a group when any child yields the row; the entries of all children.
IterResult(it, row) ==
    MergeAll([k \in 1..Len(IF it.kind = "union" THEN it.iters ELSE <<it>>) |->
                LeafResult((IF it.kind = "union" THEN it.iters ELSE <<it>>)[k], row)])

\* LeftJoin on one row: the row is a group when each of the first nRequired
\* children yielded it; the group holds the entries of all children, in order.
LeftJoinGroup(children, nRequired) ==
    [produced |-> \A k \in 1..Len(children) : k <= nRequired => Produced(children[k]),
     res |-> MergeAll(children)]

(***************************************************************************)
(* Maps from traceql.Attribute to traceql.Static.                          *)
(***************************************************************************)
EmptyMap == [k \in {} |-> StaticZero]
Put(m, k, v) == [x \in (DOMAIN m) \cup {k} |-> IF x = k THEN v ELSE m[x]]
NonNilCount(m) == Cardinality({k \in DOMAIN m : m[k].Type # StaticType.Nil})

(***************************************************************************)
(* spanCollector.KeepGroup (block_traceql.go:966).                         *)
(***************************************************************************)
NewSpan == [ID |-> "", StartTimeUnixNanos |-> 0, EndtimeUnixNanos |-> 0,
            Attributes |-> EmptyMap]

\* Lines 972-974: the attributes handed up by the attribute collector.
RECURSIVE spanCollectorOther(_, _)
spanCollectorOther(span, es) ==
    IF es = <<>> THEN span
    ELSE spanCollectorOther(
            [span EXCEPT !.Attributes = Put(@, newSpanAttr(Head(es).Key), Head(es).Value)],
            Tail(es))

\* Lines 990-1002: the OTLP status code mapped back to the TraceQL enum.
spanCollectorStatus(code) ==
    CASE code = Status_STATUS_CODE_UNSET -> StatusUnset
      [] code = Status_STATUS_CODE_OK -> StatusOk
      [] code = Status_STATUS_CODE_ERROR -> StatusError
      [] OTHER -> code

\* Lines 978-1017: one column entry merged into the span.
spanCollectorEntry(span, kv) ==
    CASE kv.Key = columnPath.SpanID -> [span EXCEPT !.ID = kv.Value.S]
      [] kv.Key = columnPath.SpanStartTime ->
            [span EXCEPT !.StartTimeUnixNanos = ToUint64(kv.Value.N)]
      [] kv.Key = columnPath.SpanEndTime ->
            [span EXCEPT !.EndtimeUnixNanos = ToUint64(kv.Value.N)]
      [] kv.Key = columnPath.SpanName ->
            [span EXCEPT !.Attributes =
                Put(@, NewIntrinsic(Intrinsic.Name), NewStaticString(kv.Value.S))]
      [] kv.Key = columnPath.SpanStatusCode ->
            [span EXCEPT !.Attributes =
                Put(@, NewIntrinsic(Intrinsic.Status),
                    NewStaticStatus(spanCollectorStatus(ToUint64(kv.Value.N))))]
      [] OTHER ->
            CASE kv.Value.Kind = Kind.Boolean ->
                    [span EXCEPT !.Attributes = Put(@, newSpanAttr(kv.Key), NewStaticBool(kv.Value.B))]
              [] kv.Value.Kind \in {Kind.Int32, Kind.Int64} ->
                    [span EXCEPT !.Attributes = Put(@, newSpanAttr(kv.Key), NewStaticInt(kv.Value.N))]
              [] kv.Value.Kind = Kind.Float ->
                    [span EXCEPT !.Attributes = Put(@, newSpanAttr(kv.Key), NewStaticFloat(kv.Value.N))]
              [] kv.Value.Kind = Kind.ByteArray ->
                    [span EXCEPT !.Attributes = Put(@, newSpanAttr(kv.Key), NewStaticString(kv.Value.S))]
              [] OTHER -> span

RECURSIVE spanCollectorEntries(_, _)
spanCollectorEntries(span, es) ==
    IF es = <<>> THEN span
    ELSE spanCollectorEntries(spanCollectorEntry(span, Head(es)), Tail(es))

\* Lines 1020-1029: the computed duration is saved when any duration filter passes.
spanCollectorDuration(c, span) ==
    IF Len(c.durationFilters) > 0
    THEN LET duration == SubUint64(span.EndtimeUnixNanos, span.StartTimeUnixNanos) IN
         IF \E k \in 1..Len(c.durationFilters) :
                \/ IsNilPointer(c.durationFilters[k])
                \/ IntFn(c.durationFilters[k].op, c.durationFilters[k].i, ToInt64(duration))
         THEN [span EXCEPT !.Attributes =
                  Put(@, NewIntrinsic(Intrinsic.Duration), NewStaticDuration(ToInt64(duration)))]
         ELSE span
    ELSE span

\* c = [minAttributes, durationFilters]; the result is [keep, span].
spanCollector_KeepGroup(c, res) ==
    LET span == spanCollectorDuration(c,
                    spanCollectorEntries(spanCollectorOther(NewSpan, res.OtherEntries),
                                         res.Entries))
    IN IF c.minAttributes > 0 /\ NonNilCount(span.Attributes) < c.minAttributes
       THEN [keep |-> FALSE, span |-> span]
       ELSE [keep |-> TRUE, span |-> span]

\* LeftJoin(span level, required, optional, spanCollector) on one span row.
\* it = [required, optional, col].
SpanLeftJoin(c, g) ==
    IF ~g.produced THEN [keep |-> FALSE, span |-> NewSpan]
    ELSE spanCollector_KeepGroup(c, g.res)

SpanRowResult(it, row) ==
    SpanLeftJoin(it.col,
        LeftJoinGroup([k \in 1..Len(it.required \o it.optional) |->
                          IterResult((it.required \o it.optional)[k], row)],
                      Len(it.required)))

\* The kept spans of the rows, in row order, as the entries handed to the batch level.
SpanEntries(out) ==
    [Entries |-> <<>>,
     OtherEntries |->
        Flatten([k \in 1..Len(out) |->
                    IF out[k].keep
                    THEN <<[Key |-> "span", Kind |-> "span", Value |-> out[k].span]>>
                    ELSE <<>>])]

\* The span iterator on the spans of one batch.
SpanIterResult(it, rows) ==
    SpanEntries([k \in 1..Len(rows) |-> SpanRowResult(it, rows[k])])

(***************************************************************************)
(* batchCollector.KeepGroup (block_traceql.go:1059).                       *)
(***************************************************************************)
\* Lines 1070-1077 and 1085-1092: the resource attributes of the group.
RECURSIVE batchCollectorOther(_, _)
batchCollectorOther(resAttrs, es) ==
    IF es = <<>> THEN resAttrs
    ELSE batchCollectorOther(
            IF Head(es).Kind = "static"
            THEN Put(resAttrs, newResAttr(Head(es).Key), Head(es).Value)
            ELSE resAttrs,
            Tail(es))

RECURSIVE batchCollectorEntries(_, _)
batchCollectorEntries(resAttrs, es) ==
    IF es = <<>> THEN resAttrs
    ELSE batchCollectorEntries(
            CASE Head(es).Value.Kind = Kind.Int64 ->
                    Put(resAttrs, newResAttr(Head(es).Key), NewStaticInt(Head(es).Value.N))
              [] Head(es).Value.Kind = Kind.ByteArray ->
                    Put(resAttrs, newResAttr(Head(es).Key), NewStaticString(Head(es).Value.S))
              [] OTHER -> resAttrs,
            Tail(es))

batchResAttrs(res) ==
    batchCollectorEntries(batchCollectorOther(EmptyMap, res.OtherEntries), res.Entries)

batchSpans_mut(res) ==
    LET es == SelectSeq(res.OtherEntries, LAMBDA e : e.Kind = "span")
    IN [k \in 1..Len(es) |-> es[Len(es) + 1 - k].Value]

batchSpans(res) ==
    LET es == SelectSeq(res.OtherEntries, LAMBDA e : e.Kind = "span")
    IN [k \in 1..Len(es) |-> es[k].Value]

\* Lines 1100-1107: resource attributes copied to a span that lacks the key.
batchCopyAttrs_mut(resAttrs, span) == span

batchCopyAttrs(resAttrs, span) ==
    [span EXCEPT !.Attributes =
        [k \in (DOMAIN @) \cup (DOMAIN resAttrs) |->
            IF k \in DOMAIN @ THEN @[k] ELSE resAttrs[k]]]

\* Lines 1109-1116: attributes of nil type removed.
batchRemoveNil_mut(span) == span

batchRemoveNil(span) ==
    [span EXCEPT !.Attributes =
        [k \in {x \in DOMAIN @ : @[x].Type # StaticType.Nil} |-> @[k]]]

NewSpanset == [TraceID |-> "", StartTimeUnixNanos |-> 0, DurationNanos |-> 0,
               RootSpanName |-> "", RootServiceName |-> "", Spans |-> <<>>]

\* c = [requireAtLeastOneMatchOverall, minAttributes]; the result is [keep, spanset].
batchCollector_KeepGroup(c, res) ==
    LET spans == batchSpans(res)
        resAttrs == batchResAttrs(res)
        merged == [k \in 1..Len(spans) |-> batchRemoveNil(batchCopyAttrs(resAttrs, spans[k]))]
        kept == IF c.requireAtLeastOneMatchOverall
                THEN SelectSeq(merged, LAMBDA s : Cardinality(DOMAIN s.Attributes) > 0)
                ELSE merged
    IN IF Len(spans) = 0 THEN [keep |-> FALSE, spanset |-> NewSpanset]
       ELSE IF c.minAttributes > 0 /\ Cardinality(DOMAIN resAttrs) < c.minAttributes
       THEN [keep |-> FALSE, spanset |-> NewSpanset]
       ELSE IF Len(kept) = 0 THEN [keep |-> FALSE, spanset |-> NewSpanset]
       ELSE [keep |-> TRUE, spanset |-> [NewSpanset EXCEPT !.Spans = kept]]

\* The group of one batch: every required child must have yielded the batch.
\* it = [required, optional, col]; spanIt is the span iterator.
BatchChildResult(c, spanIt, batch) ==
    IF c.kind = "span" THEN SpanIterResult(spanIt, batch.Spans)
    ELSE IterResult(c, batch)

BatchGroup(it, spanIt, batch) ==
    LeftJoinGroup([k \in 1..Len(it.required \o it.optional) |->
                      BatchChildResult((it.required \o it.optional)[k], spanIt, batch)],
                  Len(it.required))

BatchLeftJoin(c, g) ==
    IF ~g.produced THEN [keep |-> FALSE, spanset |-> NewSpanset]
    ELSE batchCollector_KeepGroup(c, g.res)

\* LeftJoin(batch level, required, optional, batchCollector) on one batch.
BatchRowResult(it, spanIt, batch) ==
    BatchLeftJoin(it.col, BatchGroup(it, spanIt, batch))

\* The kept spansets of the batches, in row order, as the entries handed to the
\* trace level.
SpansetEntries(out) ==
    [Entries |-> <<>>,
     OtherEntries |->
        Flatten([k \in 1..Len(out) |->
                    IF out[k].keep
                    THEN <<[Key |-> "spanset", Kind |-> "spanset", Value |-> out[k].spanset]>>
                    ELSE <<>>])]

\* The resource iterator on the batches of one trace.
ResourceIterResult(it, spanIt, batches) ==
    SpansetEntries([k \in 1..Len(batches) |-> BatchRowResult(it, spanIt, batches[k])])

(***************************************************************************)
(* traceCollector.KeepGroup (block_traceql.go:1153).                       *)
(***************************************************************************)
traceCollectorEntry(ss, e) ==
    CASE e.Key = columnPath.TraceID -> [ss EXCEPT !.TraceID = e.Value.S]
      [] e.Key = columnPath.StartTimeUnixNano ->
            [ss EXCEPT !.StartTimeUnixNanos = ToUint64(e.Value.N)]
      [] e.Key = columnPath.DurationNanos -> [ss EXCEPT !.DurationNanos = ToUint64(e.Value.N)]
      [] e.Key = columnPath.RootSpanName -> [ss EXCEPT !.RootSpanName = e.Value.S]
      [] e.Key = columnPath.RootServiceName -> [ss EXCEPT !.RootServiceName = e.Value.S]
      [] OTHER -> ss

RECURSIVE traceCollectorEntries(_, _)
traceCollectorEntries(ss, es) ==
    IF es = <<>> THEN ss
    ELSE traceCollectorEntries(traceCollectorEntry(ss, Head(es)), Tail(es))

\* Lines 1171-1175: the spans of every batch spanset, appended in order.
traceCollectorSpans_mut(others) ==
    IF others = <<>> THEN <<>> ELSE Head(others).Value.Spans

traceCollectorSpans(others) ==
    Flatten([k \in 1..Len(others) |->
                IF others[k].Kind = "spanset" THEN others[k].Value.Spans ELSE <<>>])

traceCollector_KeepGroup(res) ==
    [keep |-> TRUE,
     spanset |-> [traceCollectorEntries(NewSpanset, res.Entries)
                    EXCEPT !.Spans = traceCollectorSpans(res.OtherEntries)]]

\* The trace-level columns of a trace row (createTraceIterator, lines 651-659).
TraceColumns(trow) ==
    << [Key |-> columnPath.TraceID, Value |-> PqBytes(trow.TraceID)],
       [Key |-> columnPath.StartTimeUnixNano, Value |-> PqTime(trow.StartTimeUnixNano)],
       [Key |-> columnPath.DurationNanos, Value |-> PqTime(trow.DurationNanos)],
       [Key |-> columnPath.RootSpanName, Value |-> PqBytes(trow.RootSpanName)],
       [Key |-> columnPath.RootServiceName, Value |-> PqBytes(trow.RootServiceName)] >>

\* Join(trace level, [resourceIter, trace columns], traceCollector) on one trace row.
\* p is the plan fetch built.
TraceJoin(r, trow) ==
    IF ~Produced(r) THEN [keep |-> FALSE, spanset |-> NewSpanset]
    ELSE traceCollector_KeepGroup([Entries |-> TraceColumns(trow),
                                   OtherEntries |-> r.OtherEntries])

TraceRowResult(p, trow) ==
    TraceJoin(ResourceIterResult(p.resourceIter, p.spanIter, trow.rs), trow)

\* The trace iterator on every row it scans.
TraceResults(p) == [k \in 1..Len(p.rows) |-> TraceRowResult(p, p.rows[k])]

(***************************************************************************)
(* createAttributeIterator (block_traceql.go:876).                         *)
(* Results of the create* functions are [err, has, iter]; has = FALSE is   *)
(* the nil iterator.                                                       *)
(***************************************************************************)
\* Lines 900-929: the predicate built for a condition with an operand; operand
\* types outside the switch get none.
attrCondPredicate(cond) ==
    CASE cond.Operands[1].Type = StaticType.String -> createStringPredicate(cond.Op, cond.Operands)
      [] cond.Operands[1].Type = StaticType.Int -> createIntPredicate(cond.Op, cond.Operands)
      [] cond.Operands[1].Type = StaticType.Float -> createFloatPredicate(cond.Op, cond.Operands)
      [] cond.Operands[1].Type = StaticType.Boolean -> createBoolPredicate(cond.Op, cond.Operands)
      [] OTHER -> Ok(NilPredicate)

\* The predicates collected for the value column of type typ.
attrPreds(conditions, typ) ==
    Flatten([k \in 1..Len(conditions) |->
        IF conditions[k].Op = Op.None THEN <<NilPredicate>>
        ELSE IF conditions[k].Operands[1].Type = typ
        THEN <<attrCondPredicate(conditions[k]).val>>
        ELSE <<>>])

createAttributeIterator(conditions, keyPath, strPath, intPath, floatPath, boolPath) ==
    LET bad == {k \in 1..Len(conditions) :
                    /\ conditions[k].Op # Op.None
                    /\ attrCondPredicate(conditions[k]).err # ""}
        attrKeys == [k \in 1..Len(conditions) |-> conditions[k].Attribute.Name]
        ValueIter(path, typ, as) ==
            IF Len(attrPreds(conditions, typ)) > 0
            THEN <<makeIter(path, NewOrPredicate(attrPreds(conditions, typ)), as)>>
            ELSE <<>>
        valueIters == ValueIter(strPath, StaticType.String, "string")
                        \o ValueIter(intPath, StaticType.Int, "int")
                        \o ValueIter(floatPath, StaticType.Float, "float")
                        \o ValueIter(boolPath, StaticType.Boolean, "bool")
    IN IF bad # {}
       THEN [err |-> <<"creating attribute predicate",
                       attrCondPredicate(conditions[Min(bad)]).err>>,
             has |-> FALSE, iter |-> <<>>]
       ELSE IF Len(valueIters) > 0
       THEN [err |-> <<>>, has |-> TRUE,
             iter |-> NewAttrIterator(makeIter(keyPath, NewStringInPredicate(attrKeys), "key"),
                                      valueIters)]
       ELSE [err |-> <<>>, has |-> FALSE, iter |-> <<>>]

\* The branch taken when the type of the operand is not compared with the
\* declared type of the column.
spanCondKind_mut(cond) ==
    CASE cond.Attribute.Intrinsic = Intrinsic.Name -> "name"
      [] cond.Attribute.Intrinsic = Intrinsic.Duration -> "duration"
      [] cond.Attribute.Intrinsic = Intrinsic.Status -> "status"
      [] OTHER ->
            IF /\ cond.Attribute.Name \in DOMAIN wellKnownColumnLookups
               /\ wellKnownColumnLookups[cond.Attribute.Name].level # AttributeScope.Resource
            THEN "column"
            ELSE "generic"

(***************************************************************************)
(* createSpanColumnIterators (block_traceql.go:359).                       *)
(***************************************************************************)
\* Which branch of the loop (lines 372-424) a condition takes.
spanCondKind(cond) ==
    CASE cond.Attribute.Intrinsic = Intrinsic.Name -> "name"
      [] cond.Attribute.Intrinsic = Intrinsic.Duration -> "duration"
      [] cond.Attribute.Intrinsic = Intrinsic.Status -> "status"
      [] OTHER ->
            IF /\ cond.Attribute.Name \in DOMAIN wellKnownColumnLookups
               /\ wellKnownColumnLookups[cond.Attribute.Name].level # AttributeScope.Resource
            THEN IF cond.Op = Op.None THEN "column"
                 ELSE IF wellKnownColumnLookups[cond.Attribute.Name].typ = operandType(cond.Operands)
                 THEN "column"
                 ELSE "generic"
            ELSE "generic"

\* The predicate the branch builds.
spanCondPredicate(cond) ==
    CASE spanCondKind(cond) = "name" -> createStringPredicate(cond.Op, cond.Operands)
      [] spanCondKind(cond) = "duration" -> createIntPredicate(cond.Op, cond.Operands)
      [] spanCondKind(cond) = "status" -> createStatusPredicate(cond.Op, cond.Operands)
      [] spanCondKind(cond) = "column" -> createPredicate(cond.Op, cond.Operands)
      [] OTHER -> Ok(NilPredicate)

\* The column the branch adds the predicate to, and the name it is selected as.
spanCondPath(cond) ==
    CASE spanCondKind(cond) = "name" -> columnPath.SpanName
      [] spanCondKind(cond) = "status" -> columnPath.SpanStatusCode
      [] spanCondKind(cond) = "column" -> wellKnownColumnLookups[cond.Attribute.Name].columnPath
      [] OTHER -> ""

spanCondSelectAs(cond) ==
    CASE spanCondKind(cond) = "name" -> columnPath.SpanName
      [] spanCondKind(cond) = "status" -> columnPath.SpanStatusCode
      [] OTHER -> cond.Attribute.Name

\* The orders in which a range over a map with the keys S can go.
Orders(S) ==
    { o \in [1..Cardinality(S) -> S] : \A a, b \in 1..Cardinality(S) : o[a] = o[b] => a = b }

\* The keys of columnPredicates, and the orders the range of line 451 can take
\* them in: Go ranges over a map in an order that is not specified.
spanColumns(conditions) ==
    {spanCondPath(conditions[k]) : k \in 1..Len(conditions)} \ {""}

SpanColumnOrder(conditions) == Orders(spanColumns(conditions))

\* Lines 451-453: one iterator per column of columnPredicates, the predicates of a
\* column or-ed, in the order of the range.
spanColumnPredicateIters(conditions, order) ==
    [c \in 1..Len(order) |->
        LET on == SelectSeq(conditions, LAMBDA cond : spanCondPath(cond) = order[c]) IN
        makeIter(order[c],
                 NewOrPredicate([k \in 1..Len(on) |-> spanCondPredicate(on[k]).val]),
                 spanCondSelectAs(on[Len(on)]))]

\* Lines 426-455: the attribute iterator and the column iterators put together.
spanColumnIterators(conditions, attrIter, order) ==
    IF attrIter.err # <<>>
    THEN [err |-> <<"creating span attribute iterator">> \o attrIter.err,
          iters |-> <<>>, durationPredicates |-> <<>>]
    ELSE [err |-> <<>>,
          iters |-> (IF attrIter.has THEN <<attrIter.iter>> ELSE <<>>)
                     \o spanColumnPredicateIters(conditions, order),
          durationPredicates |->
             [k \in 1..Len(SelectSeq(conditions, LAMBDA cond : spanCondKind(cond) = "duration")) |->
                spanCondPredicate(
                    SelectSeq(conditions, LAMBDA cond : spanCondKind(cond) = "duration")[k]).val]]

\* Lines 372-424: the first condition whose predicate cannot be built ends the loop.
spanColumnError(cond) ==
    [err |-> (IF spanCondKind(cond) = "column" THEN <<"creating predicate">> ELSE <<>>)
             \o <<spanCondPredicate(cond).err>>,
     iters |-> <<>>, durationPredicates |-> <<>>]

spanColumnBad(conditions) ==
    {k \in 1..Len(conditions) : spanCondPredicate(conditions[k]).err # ""}

\* withAllWellKnownColumns is false at both call sites (lines 461 and 601).
createSpanColumnIterators(conditions, order) ==
    IF spanColumnBad(conditions) # {}
    THEN spanColumnError(conditions[Min(spanColumnBad(conditions))])
    ELSE spanColumnIterators(conditions,
            createAttributeIterator(
                SelectSeq(conditions, LAMBDA cond : spanCondKind(cond) = "generic"),
                columnPath.SpanAttrKey, columnPath.SpanAttrString, columnPath.SpanAttrInt,
                columnPath.SpanAttrDouble, columnPath.SpanAttrBool),
            order)

(***************************************************************************)
(* createSpanIterator (block_traceql.go:460).                              *)
(***************************************************************************)
\* Lines 484-488: the number of distinct attribute names of the conditions.
distinctNames(conditions) ==
    Cardinality({conditions[k].Attribute.Name : k \in 1..Len(conditions)})

\* Lines 478-489 and 606-617.
minCount(conditions, requireAtLeastOneMatch, allConditions) ==
    IF allConditions THEN distinctNames(conditions)
    ELSE IF requireAtLeastOneMatch THEN 1
    ELSE 0

\* Lines 467-474: the predicates on the start and end columns.
timeFilters(start, end) ==
    IF start > 0 /\ end > 0
    THEN [startFilter |-> NewIntBetweenPredicate(0, ToInt64(end)),
          endFilter |-> NewIntBetweenPredicate(ToInt64(start), MaxInt64)]
    ELSE [startFilter |-> NilPredicate, endFilter |-> NilPredicate]

NoIter == [required |-> <<>>, optional |-> <<>>,
           col |-> [minAttributes |-> 0, durationFilters |-> <<>>,
                    requireAtLeastOneMatchOverall |-> FALSE]]

\* Lines 476-521: the column iterators arranged under the span-level join.
spanIteratorJoin(cols, tf, minAttributes, requireAtLeastOneMatch, allConditions) ==
    LET spanCol == [minAttributes |-> minAttributes,
                    durationFilters |-> cols.durationPredicates,
                    requireAtLeastOneMatchOverall |-> FALSE]
        \* lines 497-500
        required1 == IF allConditions THEN cols.iters ELSE <<>>
        iters1 == IF allConditions THEN <<>> ELSE cols.iters
        \* lines 507-510
        union == requireAtLeastOneMatch /\ Len(iters1) > 0 /\ Len(cols.durationPredicates) = 0
        required2 == IF union THEN required1 \o <<NewUnionIterator(iters1)>> ELSE required1
        iters2 == IF union THEN <<>> ELSE iters1
        \* lines 515-517
        required3 == required2 \o
            << makeIter(columnPath.SpanStartTime, tf.startFilter, columnPath.SpanStartTime),
               makeIter(columnPath.SpanEndTime, tf.endFilter, columnPath.SpanEndTime),
               makeIter(columnPath.SpanID, NilPredicate, columnPath.SpanID) >>
    IN IF cols.err # <<>> THEN [err |-> cols.err, val |-> NoIter]
       ELSE [err |-> <<>>,
             val |-> [required |-> required3, optional |-> iters2, col |-> spanCol]]

createSpanIterator(conditions, start, end, requireAtLeastOneMatch, allConditions, order) ==
    spanIteratorJoin(createSpanColumnIterators(conditions, order), timeFilters(start, end),
                     minCount(conditions, requireAtLeastOneMatch, allConditions),
                     requireAtLeastOneMatch, allConditions)

(***************************************************************************)
(* createResourceColumIterators (block_traceql.go:525).                    *)
(***************************************************************************)
\* Which branch of the loop (lines 537-559) a condition takes.
resCondKind(cond) ==
    IF /\ cond.Attribute.Name \in DOMAIN wellKnownColumnLookups
       /\ wellKnownColumnLookups[cond.Attribute.Name].level # AttributeScope.Span
    THEN IF cond.Op = Op.None THEN "column"
         ELSE IF wellKnownColumnLookups[cond.Attribute.Name].typ = operandType(cond.Operands)
         THEN "iter"
         ELSE "generic"
    ELSE "generic"

resCondPredicate(cond) ==
    CASE resCondKind(cond) = "iter" -> createPredicate(cond.Op, cond.Operands)
      [] OTHER -> Ok(NilPredicate)

resCondPath(cond) ==
    IF resCondKind(cond) = "column"
    THEN wellKnownColumnLookups[cond.Attribute.Name].columnPath
    ELSE ""

resCondSelectAs(cond) == cond.Attribute.Name

\* The keys of columnPredicates, and the orders a range over it can take them in.
resColumns(conditions) ==
    {resCondPath(conditions[k]) : k \in 1..Len(conditions)} \ {""}

ResourceColumnOrder(conditions) == Orders(resColumns(conditions))

\* Lines 570-572 (and again 590-592): one iterator per column of columnPredicates,
\* in the order of the range.
resColumnPredicateIters(conditions, order) ==
    [c \in 1..Len(order) |->
        LET on == SelectSeq(conditions, LAMBDA cond : resCondPath(cond) = order[c]) IN
        makeIter(order[c],
                 NewOrPredicate([k \in 1..Len(on) |-> resCondPredicate(on[k]).val]),
                 resCondSelectAs(on[Len(on)]))]

\* Line 552: an iterator of its own for every typed well-known condition.
resTypedIters(typed) ==
    [k \in 1..Len(typed) |->
        makeIter(wellKnownColumnLookups[typed[k].Attribute.Name].columnPath,
                 resCondPredicate(typed[k]).val,
                 typed[k].Attribute.Name)]

\* Lines 562-594.  The loop over columnPredicates runs at line 570 and once more
\* at line 590, each in an order of its own.
resColumnIterators(typedIters, attrIter, colIters, colItersAgain) ==
    IF attrIter.err # <<>>
    THEN [err |-> <<"creating span attribute iterator">> \o attrIter.err, iters |-> <<>>]
    ELSE [err |-> <<>>,
          iters |-> typedIters
                     \o (IF attrIter.has THEN <<attrIter.iter>> ELSE <<>>)
                     \o colIters \o colItersAgain]

resColumnBad(conditions) ==
    {k \in 1..Len(conditions) : resCondPredicate(conditions[k]).err # ""}

createResourceColumIterators(conditions, order, orderAgain) ==
    IF resColumnBad(conditions) # {}
    THEN [err |-> <<"creating predicate",
                    resCondPredicate(conditions[Min(resColumnBad(conditions))]).err>>,
          iters |-> <<>>]
    ELSE resColumnIterators(
            resTypedIters(SelectSeq(conditions, LAMBDA cond : resCondKind(cond) = "iter")),
            createAttributeIterator(
                SelectSeq(conditions, LAMBDA cond : resCondKind(cond) = "generic"),
                columnPath.ResourceAttrKey, columnPath.ResourceAttrString,
                columnPath.ResourceAttrInt, columnPath.ResourceAttrDouble,
                columnPath.ResourceAttrBool),
            resColumnPredicateIters(conditions, order),
            resColumnPredicateIters(conditions, orderAgain))

(***************************************************************************)
(* createResourceIterator (block_traceql.go:600).                          *)
(***************************************************************************)
\* Lines 604-647: the column iterators arranged under the batch-level join.
resourceIteratorJoin(cols, batchCol, requireAtLeastOneMatch, allConditions) ==
    LET \* lines 627-630
        required1 == IF allConditions THEN cols.iters ELSE <<>>
        iters1 == IF allConditions THEN <<>> ELSE cols.iters
        \* lines 635-638
        union == requireAtLeastOneMatch /\ Len(iters1) > 0
        required2 == IF union THEN required1 \o <<NewUnionIterator(iters1)>> ELSE required1
        iters2 == IF union THEN <<>> ELSE iters1
    IN IF cols.err # <<>> THEN [err |-> cols.err, val |-> NoIter]
       ELSE [err |-> <<>>,
             val |-> [required |-> required2 \o <<SpanIteratorRef>>,
                      optional |-> iters2, col |-> batchCol]]

createResourceIterator(conditions, requireAtLeastOneMatch, requireAtLeastOneMatchOverall, allConditions, order, orderAgain) ==
    resourceIteratorJoin(
        createResourceColumIterators(conditions, order, orderAgain),
        [minAttributes |-> minCount(conditions, requireAtLeastOneMatch, allConditions),
         durationFilters |-> <<>>,
         requireAtLeastOneMatchOverall |-> requireAtLeastOneMatchOverall],
        requireAtLeastOneMatch, allConditions)

(***************************************************************************)
(* fetch (block_traceql.go:266).                                           *)
(***************************************************************************)
\* Lines 277-282: a no-scoped intrinsic gets its default scope.
fetchScope_mut(cond) == cond.Attribute.Scope

fetchScope(cond) ==
    IF /\ cond.Attribute.Scope = AttributeScope.None
       /\ cond.Attribute.Intrinsic \in DOMAIN intrinsicColumnLookups
    THEN intrinsicColumnLookups[cond.Attribute.Intrinsic].scope
    ELSE cond.Attribute.Scope

\* Lines 284-299: the three outcomes of the categorisation.
fetchSpanConditions(conditions) ==
    SelectSeq(conditions,
              LAMBDA cond : fetchScope(cond) \in {AttributeScope.None, AttributeScope.Span})

fetchResourceConditions(conditions) ==
    SelectSeq(conditions,
              LAMBDA cond : fetchScope(cond) \in {AttributeScope.None, AttributeScope.Resource})

fetchMingledConditions(conditions) ==
    \E k \in 1..Len(conditions) : fetchScope(conditions[k]) = AttributeScope.None

fetchUnsupportedScope(conditions) ==
    \E k \in 1..Len(conditions) :
        fetchScope(conditions[k]) \notin
            {AttributeScope.None, AttributeScope.Span, AttributeScope.Resource}

\* Line 339.
fetchAllConditions_mut(r, mingledConditions) == r.AllConditions

fetchAllConditions(r, mingledConditions) == r.AllConditions /\ ~mingledConditions

\* Lines 302-311: the row groups to scan.  A Go slice expression s[a:b] panics
\* unless 0 <= a <= b <= cap(s).
fetchRowGroups(rgs, o) ==
    IF o.TotalPages > 0
    THEN LET total == IF o.StartPage + o.TotalPages > Len(rgs)
                      THEN Len(rgs) - o.StartPage
                      ELSE o.TotalPages
             lo == o.StartPage
             hi == o.StartPage + total
         IN IF 0 <= lo /\ lo <= hi /\ hi <= Len(rgs)
            THEN [panic |-> FALSE, rgs |-> SubSeq(rgs, lo + 1, hi)]
            ELSE [panic |-> TRUE, rgs |-> <<>>]
    ELSE [panic |-> FALSE, rgs |-> rgs]

NoPlan ==
    [spanConditions |-> <<>>, resourceConditions |-> <<>>, mingledConditions |-> FALSE,
     allConditions |-> FALSE, spanRequireAtLeastOneMatch |-> FALSE,
     batchRequireAtLeastOneMatch |-> FALSE, batchRequireAtLeastOneMatchOverall |-> FALSE,
     spanIter |-> NoIter, resourceIter |-> NoIter, rows |-> <<>>]

\* Lines 323-339: what each level is asked to require.
fetchFlags(r) ==
    [spanConditions |-> fetchSpanConditions(r.Conditions),
     resourceConditions |-> fetchResourceConditions(r.Conditions),
     mingledConditions |-> fetchMingledConditions(r.Conditions),
     allConditions |-> fetchAllConditions(r, fetchMingledConditions(r.Conditions)),
     spanRequireAtLeastOneMatch |->
        /\ Len(fetchSpanConditions(r.Conditions)) > 0
        /\ Len(fetchResourceConditions(r.Conditions)) = 0,
     batchRequireAtLeastOneMatch |->
        /\ Len(fetchSpanConditions(r.Conditions)) = 0
        /\ Len(fetchResourceConditions(r.Conditions)) > 0,
     batchRequireAtLeastOneMatchOverall |-> Len(r.Conditions) > 0]

\* What fetch yields when the slice expression of line 310 panics.
PanicError == <<"panic: runtime error: slice bounds out of range">>

\* Lines 341-354: the three levels of iterators.
fetchIterators(f, rgs, spanIter, resourceIter) ==
    IF rgs.panic
    THEN [err |-> PanicError, val |-> NoPlan]
    ELSE IF spanIter.err # <<>>
    THEN [err |-> <<"creating span iterator">> \o spanIter.err, val |-> NoPlan]
    ELSE IF resourceIter.err # <<>>
    THEN [err |-> <<"creating resource iterator">> \o resourceIter.err, val |-> NoPlan]
    ELSE [err |-> <<>>,
          val |-> [spanConditions |-> f.spanConditions,
                   resourceConditions |-> f.resourceConditions,
                   mingledConditions |-> f.mingledConditions,
                   allConditions |-> f.allConditions,
                   spanRequireAtLeastOneMatch |-> f.spanRequireAtLeastOneMatch,
                   batchRequireAtLeastOneMatch |-> f.batchRequireAtLeastOneMatch,
                   batchRequireAtLeastOneMatchOverall |-> f.batchRequireAtLeastOneMatchOverall,
                   spanIter |-> spanIter.val,
                   resourceIter |-> resourceIter.val,
                   rows |-> Flatten(rgs.rgs)]]

fetchPlan(r, f, rgs, ranges) ==
    fetchIterators(f, rgs,
        createSpanIterator(f.spanConditions, r.StartTimeUnixNanos, r.EndTimeUnixNanos,
                           f.spanRequireAtLeastOneMatch, f.allConditions, ranges.span),
        createResourceIterator(f.resourceConditions, f.batchRequireAtLeastOneMatch,
                               f.batchRequireAtLeastOneMatchOverall, f.allConditions,
                               ranges.resource, ranges.resourceAgain))

\* The orders the three map ranges of one call of fetch can take.
MapRanges(r) ==
    [span : SpanColumnOrder(fetchSpanConditions(r.Conditions)),
     resource : ResourceColumnOrder(fetchResourceConditions(r.Conditions)),
     resourceAgain : ResourceColumnOrder(fetchResourceConditions(r.Conditions))]

fetch(r, file, o, ranges) ==
    IF fetchUnsupportedScope(r.Conditions)
    THEN [err |-> <<"unsupported traceql scope">>, val |-> NoPlan]
    ELSE fetchPlan(r, fetchFlags(r), fetchRowGroups(file, o), ranges)

(***************************************************************************)
(* backendBlock.Fetch (block_traceql.go:96) and the result iterator.       *)
(***************************************************************************)
\* The error openForSearch returns when the block file cannot be opened.
OpenError == "error opening block file"

\* Lines 98-101.
Fetch_checkConditions ==
    /\ pc = "Fetch"
    /\ IF checkConditions(req.Conditions) # ""
       THEN /\ err' = <<"conditions invalid", checkConditions(req.Conditions)>>
            /\ pc' = "failed"
       ELSE /\ err' = err
            /\ pc' = "open"
    /\ UNCHANGED <<req, opts, pf, opened, plan, cur, results, openErr, mergeVars, probe, otherVars>>

\* Lines 103-106: the block file is opened; an error of openForSearch is returned
\* as it is.
Fetch_openForSearch ==
    /\ pc = "open"
    /\ opened' = opened + 1
    /\ IF openErr
       THEN /\ err' = <<OpenError>>
            /\ pc' = "failed"
       ELSE /\ err' = err
            /\ pc' = "fetch"
    /\ UNCHANGED <<req, opts, pf, plan, cur, results, openErr, mergeVars, probe, otherVars>>

\* Lines 108-116.  A panic inside fetch unwinds Fetch: nothing is returned.
Fetch_fetch ==
    /\ pc = "fetch"
    /\ \E r \in { fetch(req, pf, opts, ranges) : ranges \in MapRanges(req) } :
        IF r.err = PanicError
        THEN /\ err' = err
             /\ plan' = plan
             /\ pc' = "panicked"
        ELSE IF r.err # <<>>
        THEN /\ err' = <<"creating fetch iter">> \o r.err
             /\ plan' = plan
             /\ pc' = "failed"
        ELSE /\ err' = err
             /\ plan' = r.val
             /\ pc' = "iter"
    /\ UNCHANGED <<req, opts, pf, opened, cur, results, openErr, mergeVars, probe, otherVars>>

\* genIterator.Next: the trace iterator is driven to its next group; the rows that
\* yield none are skipped, and the end of the rows ends the stream.
Iterator_Next ==
    /\ pc = "iter"
    /\ \E out \in {TraceResults(plan)} :
        LET hits == {k \in (cur + 1)..Len(out) : out[k].keep} IN
        IF hits = {}
        THEN /\ cur' = Len(out)
             /\ results' = results
             /\ pc' = "done"
        ELSE /\ cur' = Min(hits)
             /\ results' = Append(results, out[Min(hits)].spanset)
             /\ pc' = "iter"
    /\ UNCHANGED <<req, opts, pf, err, opened, plan, openErr, mergeVars, probe, otherVars>>

(***************************************************************************)
(* A predicate at work: it is built from an operator and an operand, a     *)
(* page is offered to it by its smallest and largest value, and a value of *)
(* the page is offered to it.                                              *)
(***************************************************************************)
Predicate_create(name, op, operands) ==
    CASE name = "createStringPredicate" -> createStringPredicate(op, operands)
      [] name = "createIntPredicate" -> createIntPredicate(op, operands)
      [] name = "createStatusPredicate" -> createStatusPredicate(op, operands)

Predicate_Keep ==
    /\ probe.kind = "input"
    /\ \E r \in {Predicate_create(probe.create, probe.op, probe.operands)} :
        IF r.err # ""
        THEN probe' = [probe EXCEPT !.kind = "error"]
        ELSE probe' = [probe EXCEPT !.kind = "kept",
                                    !.keepPage = KeepPage(r.val, probe.min, probe.max),
                                    !.keepValue = KeepValue(r.val, probe.v)]
    /\ UNCHANGED <<fetchVars, mergeVars, otherVars>>

NextPredicate == Predicate_Keep

(***************************************************************************)
(* attributeCollector at work on a group of its own.                       *)
(***************************************************************************)
Collector_KeepGroup ==
    /\ probe.kind = "group"
    /\ \E r \in {attributeCollector_KeepGroup(probe.res)} :
        probe' = [kind |-> "collected", res |-> probe.res, keep |-> r.keep, after |-> r.res]
    /\ UNCHANGED <<fetchVars, mergeVars, otherVars>>

NextCollector == Collector_KeepGroup

(***************************************************************************)
(* The SLO post hook of the query frontend (sloHook, lines 135-184).       *)
(***************************************************************************)
\* Errors: nil, a gRPC status error with a code, context.Canceled, an error
\* wrapping context.Canceled (fmt.Errorf("...: %w", context.Canceled)) and an error that
\* is none of these.
NilError == [kind |-> "nil"]
GRPCError(code) == [kind |-> "status", code |-> code]
ContextCanceled == [kind |-> "context.Canceled"]
Wrapped(e) == [kind |-> "wrapped", inner |-> e]
OtherError == [kind |-> "other"]

\* A nil *http.Response.
NilResponse == [nil |-> TRUE]

\* status.Code: OK for nil, the code of a status error, Unknown otherwise.
status_Code(e) ==
    CASE e = NilError -> "OK"
      [] e.kind = "status" -> e.code
      [] OTHER -> "Unknown"

\* errors.Is: the error, or an error it wraps, is the target.
errors_Is(e, target) ==
    \/ e = target
    \/ e.kind = "wrapped" /\ e.inner = target

\* The ticks of a time.Duration in a second: Seconds() is latency / Second.
Second == 2

\* The errors within the SLO when a cancelled context is not one of them.
errWithinSLO_mut(e) == status_Code(e) = "ResourceExhausted"

\* Lines 144-145: the errors that are still within the SLO.
errWithinSLO(e) ==
    status_Code(e) = "ResourceExhausted" \/ errors_Is(e, ContextCanceled)

\* Lines 156-167: throughput is 0 unless seconds > 0; the comparison
\* float64(bytesProcessed) / seconds >= cfg.ThroughputBytesSLO is made on the
\* fraction bytesProcessed * Second / latency.
passedThroughput(cfg, bytesProcessed, latency) ==
    IF cfg.ThroughputBytesSLO > 0
    THEN IF latency > 0
         THEN bytesProcessed * Second >= cfg.ThroughputBytesSLO * latency
         ELSE 0 >= cfg.ThroughputBytesSLO
    ELSE FALSE

\* Lines 169-172.
passedDuration_mut(cfg, latency) ==
    IF cfg.DurationSLO > 0
    THEN cfg.DurationSLO = 0 \/ latency <= cfg.DurationSLO
    ELSE FALSE

passedDuration(cfg, latency) ==
    IF cfg.DurationSLO > 0
    THEN cfg.DurationSLO = 0 \/ latency < cfg.DurationSLO
    ELSE FALSE

\* Line 174.
hasConfiguredSLO(cfg) == cfg.DurationSLO > 0 \/ cfg.ThroughputBytesSLO > 0

\* CounterVec.WithLabelValues(tenant).Inc() and HistogramVec...Observe(v): the
\* counter of the tenant, respectively the number of its samples, grows by one.
Inc(counter, tenant) == [counter EXCEPT ![tenant] = @ + 1]

\* The hook returned by sloHook, as a function of the metrics: the return
\* statements of lines 148, 153 and 179 leave the hook with the metrics as
\* they are at that point.
sloHook_mut(m, cfg, resp, tenant, bytesProcessed, latency, e) ==
    IF e # NilError
    THEN IF errWithinSLO(e)
         THEN [m EXCEPT !.all = Inc(m.all, tenant), !.within = Inc(m.within, tenant)]
         ELSE m
    ELSE [m EXCEPT !.all = Inc(m.all, tenant), !.within = Inc(m.within, tenant)]

sloHook(m, cfg, resp, tenant, bytesProcessed, latency, e) ==
    LET m1 == [m EXCEPT !.all = Inc(m.all, tenant)]
        m2 == IF cfg.ThroughputBytesSLO > 0
              THEN [m1 EXCEPT !.observed = Inc(m1.observed, tenant)]
              ELSE m1
    IN  IF e # NilError
        THEN IF errWithinSLO(e)
             THEN [m1 EXCEPT !.within = Inc(m1.within, tenant)]
             ELSE m1
        ELSE IF resp # NilResponse /\ resp.StatusCode >= 500
        THEN m1
        ELSE IF /\ ~passedDuration(cfg, latency)
                /\ ~passedThroughput(cfg, bytesProcessed, latency)
                /\ hasConfiguredSLO(cfg)
        THEN m2
        ELSE [m2 EXCEPT !.within = Inc(m2.within, tenant)]

\* The inputs of the hook.
Tenants == {"t1", "t2"}
Responses == {NilResponse} \cup { [StatusCode |-> c] : c \in {200, 500} }
HookErrors ==
    {NilError, GRPCError("ResourceExhausted"), GRPCError("Canceled"),
     ContextCanceled, Wrapped(ContextCanceled), OtherError}
ByteCounts == {0, 1, 2}
Latencies == {0, 1, 2}
SLOBounds == {0, 2}

NoCall == [kind |-> "none"]

\* One call of the post hook with any response, tenant, byte count, latency and
\* error; the state keeps the call and the number of calls per tenant.
SLO_postHook ==
    /\ slo.kind = "slo"
    /\ slo.invoked["t1"] + slo.invoked["t2"] < MaxHookCalls
    /\ \E resp \in Responses, tenant \in Tenants, bytesProcessed \in ByteCounts,
          latency \in Latencies, e \in HookErrors :
        slo' = [slo EXCEPT
                  !.metrics = sloHook(slo.metrics, slo.cfg, resp, tenant, bytesProcessed, latency, e),
                  !.invoked = Inc(slo.invoked, tenant),
                  !.before = slo.metrics,
                  !.last = [kind |-> "call", resp |-> resp, tenant |-> tenant,
                            bytesProcessed |-> bytesProcessed, latency |-> latency, err |-> e]]
    /\ UNCHANGED <<fetchVars, mergeVars, probe, cli, bm>>

NextSLO == SLO_postHook

(***************************************************************************)
(* tempo-cli analyse block (cmd-analyse-block.go).                         *)
(***************************************************************************)
\* vparquet2.VersionString, and the versions a block meta may carry.
VersionString == "vParquet2"
Versions == {"vParquet", "vParquet2", "vParquet3"}

ErrDoesNotExist == "does not exist"
BackendError == "backend error"
NilMeta == [nil |-> TRUE]
BlockMetaOf(version) == [Version |-> version]

\* What Reader.BlockMeta and Compactor.CompactedBlockMeta return: a meta and
\* no error, or no meta and ErrDoesNotExist or another error.
MetaResults ==
    { [meta |-> BlockMetaOf(v), err |-> "nil"] : v \in Versions } \cup
    { [meta |-> NilMeta, err |-> e] : e \in {ErrDoesNotExist, BackendError} }

\* getMeta: the unified meta is made of one of the metas that exist.
getMeta(meta, compactedMeta) == {meta, compactedMeta} \ {NilMeta}

\* aggregateAttributes and printSummary (lines 130-195), by what they do to the
\* caller: the step is taken and an error is returned or not.
Step(steps, name) == Append(steps, name)

\* processBlock (lines 59-119) with the unified meta getMeta returned, when the
\* version is not compared.
processBlock_mut(in, unifiedMeta) ==
    LET s0 == <<"BlockMeta">>
        s1 == Step(s0, "CompactedBlockMeta")
        s2 == Step(s1, "Open")
        s3 == Step(s2, "aggregateAttributes span")
        s4 == Step(s3, "printSummary span")
        s5 == Step(s4, "aggregateAttributes resource")
        s6 == Step(s5, "printSummary resource")
    IN  CASE ~in.validID -> [ret |-> "panic", steps |-> <<>>]
          [] in.live.err \notin {"nil", ErrDoesNotExist} -> [ret |-> in.live.err, steps |-> s0]
          [] in.compacted.err \notin {"nil", ErrDoesNotExist} ->
                [ret |-> in.compacted.err, steps |-> s1]
          [] in.live.meta = NilMeta /\ in.compacted.meta = NilMeta -> [ret |-> "nil", steps |-> s1]
          [] in.openErr # "nil" -> [ret |-> in.openErr, steps |-> s2]
          [] in.spanAggErr # "nil" -> [ret |-> in.spanAggErr, steps |-> s3]
          [] in.spanPrintErr # "nil" -> [ret |-> in.spanPrintErr, steps |-> s4]
          [] in.resAggErr # "nil" -> [ret |-> in.resAggErr, steps |-> s5]
          [] OTHER -> [ret |-> in.resPrintErr, steps |-> s6]

\* processBlock (lines 59-119) with the unified meta getMeta returned.
processBlock(in, unifiedMeta) ==
    LET s0 == <<"BlockMeta">>
        s1 == Step(s0, "CompactedBlockMeta")
        s2 == Step(s1, "Open")
        s3 == Step(s2, "aggregateAttributes span")
        s4 == Step(s3, "printSummary span")
        s5 == Step(s4, "aggregateAttributes resource")
        s6 == Step(s5, "printSummary resource")
    IN  CASE ~in.validID -> [ret |-> "panic", steps |-> <<>>]
          [] in.live.err \notin {"nil", ErrDoesNotExist} -> [ret |-> in.live.err, steps |-> s0]
          [] in.compacted.err \notin {"nil", ErrDoesNotExist} ->
                [ret |-> in.compacted.err, steps |-> s1]
          [] in.live.meta = NilMeta /\ in.compacted.meta = NilMeta -> [ret |-> "nil", steps |-> s1]
          [] unifiedMeta.Version # VersionString ->
                [ret |-> "cannot scan block contents. unsupported block version", steps |-> s1]
          [] in.openErr # "nil" -> [ret |-> in.openErr, steps |-> s2]
          [] in.spanAggErr # "nil" -> [ret |-> in.spanAggErr, steps |-> s3]
          [] in.spanPrintErr # "nil" -> [ret |-> in.spanPrintErr, steps |-> s4]
          [] in.resAggErr # "nil" -> [ret |-> in.resAggErr, steps |-> s5]
          [] OTHER -> [ret |-> in.resPrintErr, steps |-> s6]

\* The block id given, what the backend answers and whether opening the file,
\* aggregating and printing fail.
CLIInputs ==
    { [validID |-> v, live |-> l, compacted |-> c, openErr |-> o, spanAggErr |-> sa,
       spanPrintErr |-> sp, resAggErr |-> ra, resPrintErr |-> rp] :
        v \in BOOLEAN, l \in MetaResults, c \in MetaResults, o \in {"nil", "open error"},
        sa \in {"nil", "aggregate error"}, sp \in {"nil", "write error"},
        ra \in {"nil", "aggregate error"}, rp \in {"nil", "write error"} }

\* processBlock runs from its call to its return.
CLI_processBlock ==
    /\ cli.kind = "call"
    /\ \E unifiedMeta \in (IF getMeta(cli.in.live.meta, cli.in.compacted.meta) = {}
                           THEN {NilMeta}
                           ELSE getMeta(cli.in.live.meta, cli.in.compacted.meta)) :
        \E r \in {processBlock(cli.in, unifiedMeta)} :
            cli' = [kind |-> "returned", in |-> cli.in, unifiedMeta |-> unifiedMeta,
                    ret |-> r.ret, steps |-> r.steps]
    /\ UNCHANGED <<fetchVars, mergeVars, probe, slo, bm>>

NextCLI == CLI_processBlock

(***************************************************************************)
(* BlockMeta (tempodb/backend/block_meta.go).                              *)
(***************************************************************************)
\* time.Time: the zero value, and time.Unix(sec, 0).
ZeroTime == [IsZero |-> TRUE, sec |-> 0]
time_Unix(sec) == [IsZero |-> FALSE, sec |-> sec]
time_Before(t, u) ==
    IF t.IsZero THEN ~u.IsZero ELSE IF u.IsZero THEN FALSE ELSE t.sec < u.sec
time_After(t, u) == time_Before(u, t)

\* bytes.Compare: -1, 0 or 1 in the lexicographic order of the bytes.
RECURSIVE bytes_Compare(_, _)
bytes_Compare(a, b) ==
    CASE Len(a) = 0 /\ Len(b) = 0 -> 0
      [] Len(a) = 0 -> -1
      [] Len(b) = 0 -> 1
      [] Head(a) < Head(b) -> -1
      [] Head(a) > Head(b) -> 1
      [] OTHER -> bytes_Compare(Tail(a), Tail(b))

\* hashColumns (lines 160-173): 0 for no column, else the xxhash sum of the
\* bytes written, which stands for itself.
RECURSIVE hashWrites(_)
hashWrites(d) ==
    IF Len(d) = 0 THEN <<>>
    ELSE <<d[1].Scope, "\\xff", d[1].Name, "\\xff", d[1].Type>> \o hashWrites(Tail(d))

hashColumns(d) == IF Len(d) = 0 THEN <<"0">> ELSE <<"xxhash">> \o hashWrites(d)

\* NewBlockMetaWithDedicatedColumns (lines 104-118); the fields ObjectAdded and
\* the hash do not read are left out.
NewBlockMetaWithDedicatedColumns(dc) ==
    [MinID |-> <<>>, MaxID |-> <<>>, StartTime |-> ZeroTime, EndTime |-> ZeroTime,
     TotalObjects |-> 0, DedicatedColumns |-> dc, dedicatedColumnsHash |-> hashColumns(dc)]

\* ObjectAdded when the end time is kept if it is before the one recorded.
ObjectAdded_mut(b, id, start, end) ==
    LET b1 == IF start > 0 /\ (b.StartTime.IsZero \/ time_Before(time_Unix(start), b.StartTime))
              THEN [b EXCEPT !.StartTime = time_Unix(start)]
              ELSE b
        b2 == IF end > 0 /\ (b1.EndTime.IsZero \/ time_Before(time_Unix(end), b1.EndTime))
              THEN [b1 EXCEPT !.EndTime = time_Unix(end)]
              ELSE b1
        b3 == IF Len(b2.MinID) = 0 \/ bytes_Compare(id, b2.MinID) = -1
              THEN [b2 EXCEPT !.MinID = id]
              ELSE b2
        b4 == IF Len(b3.MaxID) = 0 \/ bytes_Compare(id, b3.MaxID) = 1
              THEN [b3 EXCEPT !.MaxID = id]
              ELSE b3
    IN  [b4 EXCEPT !.TotalObjects = @ + 1]

\* ObjectAdded (lines 126-149).
ObjectAdded(b, id, start, end) ==
    LET b1 == IF start > 0 /\ (b.StartTime.IsZero \/ time_Before(time_Unix(start), b.StartTime))
              THEN [b EXCEPT !.StartTime = time_Unix(start)]
              ELSE b
        b2 == IF end > 0 /\ (b1.EndTime.IsZero \/ time_After(time_Unix(end), b1.EndTime))
              THEN [b1 EXCEPT !.EndTime = time_Unix(end)]
              ELSE b1
        b3 == IF Len(b2.MinID) = 0 \/ bytes_Compare(id, b2.MinID) = -1
              THEN [b2 EXCEPT !.MinID = id]
              ELSE b2
        b4 == IF Len(b3.MaxID) = 0 \/ bytes_Compare(id, b3.MaxID) = 1
              THEN [b3 EXCEPT !.MaxID = id]
              ELSE b3
    IN  [b4 EXCEPT !.TotalObjects = @ + 1]

\* The ids, the start and end seconds and the dedicated columns of the calls.
ObjectIDs == {<<>>, <<1>>, <<1, 0>>, <<2>>}
UnixSeconds == {0, 1, 2}
ColumnConfigs ==
    {<<>>,
     <<[Scope |-> "span", Name |-> "http.route", Type |-> "string"]>>,
     <<[Scope |-> "resource", Name |-> "k8s.pod", Type |-> "string"],
       [Scope |-> "span", Name |-> "http.route", Type |-> "string"]>>}

\* One call of ObjectAdded; the state keeps the number of calls and the ids,
\* the starts and the ends given.
Meta_ObjectAdded ==
    /\ bm.kind = "meta"
    /\ bm.calls < MaxObjects
    /\ \E id \in ObjectIDs, start \in UnixSeconds, end \in UnixSeconds :
        bm' = [bm EXCEPT !.meta = ObjectAdded(bm.meta, id, start, end),
                         !.calls = @ + 1,
                         !.ids = @ \cup {id},
                         !.starts = @ \cup {start},
                         !.ends = @ \cup {end}]
    /\ UNCHANGED <<fetchVars, mergeVars, probe, slo, cli>>

NextMeta == Meta_ObjectAdded




(***************************************************************************)
(* mergeSpansetIterator (block_traceql.go:166-189) and the context its     *)
(* Next is called with.  Only the kind of what a Next returns is kept:     *)
(* "spanset", "end" for (nil, nil), "cancelled" for the context's error.   *)
(***************************************************************************)
\* No call of Next is under way.
NotInNext == [pc |-> "idle"]

\* A genIterator that still holds n spansets, has not been called since the
\* cancellation and has not returned the end of its stream.  id tells the
\* iterators of one mergeSpansetIterator apart.
NewGenIterator(n) == [id |-> 0, left |-> n, seen |-> FALSE, done |-> FALSE]

\* genIterator.Next: the possible outcomes.  Cancellation is checked between
\* groups: the first call after the cancellation may still return normally,
\* every later one returns the cancellation error.  A spanset is named by the
\* iterator it comes from (src) and the number of spansets that iterator still
\* held (val).
genIterator_Next(it, cancelled) ==
    LET normal == IF it.left > 0
                  THEN [iter |-> [it EXCEPT !.left = it.left - 1, !.seen = cancelled],
                        ret |-> "spanset", src |-> it.id, val |-> it.left]
                  ELSE [iter |-> [it EXCEPT !.seen = cancelled, !.done = TRUE],
                        ret |-> "end", src |-> it.id, val |-> 0]
        refused == [iter |-> [it EXCEPT !.seen = TRUE],
                    ret |-> "cancelled", src |-> it.id, val |-> 0]
    IN IF ~cancelled THEN {normal}
       ELSE IF it.seen THEN {refused}
       ELSE {normal, refused}

\* Lines 173-189 with the end of an iterator taken for the end of them all.
mergeSpansetIterator_Next_mut(i, cancelled) ==
    IF i.cur >= Len(i.iters)
    THEN {[merge |-> i, ret |-> "end", src |-> 0, val |-> 0]}
    ELSE { LET after == [i EXCEPT !.iters[i.cur + 1] = r.iter] IN
           IF r.ret = "cancelled"
           THEN [merge |-> after, ret |-> "cancelled", src |-> r.src, val |-> 0]
           ELSE IF r.ret = "end"
           THEN [merge |-> [after EXCEPT !.cur = i.cur + 1], ret |-> "end", src |-> 0, val |-> 0]
           ELSE [merge |-> after, ret |-> "spanset", src |-> r.src, val |-> r.val] :
           r \in genIterator_Next(i.iters[i.cur + 1], cancelled) }

\* Lines 173-189, one activation of Next: the iterator left behind and what is
\* returned, or "Next" when the activation goes on to call Next again (line 185).
\* iter.Next (line 179) sees the context as it is when it is called.
mergeSpansetIterator_Next(i, cancelled) ==
    IF i.cur >= Len(i.iters)
    THEN {[merge |-> i, ret |-> "end", src |-> 0, val |-> 0]}
    ELSE { LET after == [i EXCEPT !.iters[i.cur + 1] = r.iter] IN
           IF r.ret = "cancelled"
           THEN [merge |-> after, ret |-> "cancelled", src |-> r.src, val |-> 0]
           ELSE IF r.ret = "end"
           THEN [merge |-> [after EXCEPT !.cur = i.cur + 1], ret |-> "Next", src |-> 0, val |-> 0]
           ELSE [merge |-> after, ret |-> "spanset", src |-> r.src, val |-> r.val] :
           r \in genIterator_Next(i.iters[i.cur + 1], cancelled) }

\* The most Next calls followed: enough to drain every iterator and go on.
MaxOut == MaxIters * MaxLeft + MaxCalls

\* The caller cancels the context, between two calls of Next or while one is
\* under way.
Context_cancel ==
    /\ ctx = "live"
    /\ ctx' = "cancelled"
    /\ UNCHANGED <<fetchVars, merge, calls, returned, inNext, probe, otherVars>>

\* The caller calls Next; late tells a call made after the cancellation.
Merge_Next ==
    /\ inNext.pc = "idle"
    /\ Len(calls) < MaxCalls
    /\ Len(returned) < MaxOut
    /\ inNext' = [pc |-> "Next", late |-> ctx = "cancelled"]
    /\ UNCHANGED <<fetchVars, ctx, merge, calls, returned, probe, otherVars>>

\* One activation of Next runs: it returns to the caller, or it has moved to the
\* next iterator and calls Next again.
Merge_Next_body ==
    /\ inNext.pc = "Next"
    /\ \E r \in mergeSpansetIterator_Next(merge, ctx = "cancelled") :
        /\ merge' = r.merge
        /\ IF r.ret = "Next"
           THEN UNCHANGED <<calls, returned, inNext>>
           ELSE /\ inNext' = NotInNext
                /\ calls' = IF inNext.late THEN Append(calls, r.ret) ELSE calls
                /\ returned' = Append(returned, [ret |-> r.ret, src |-> r.src, val |-> r.val,
                                                 cur |-> r.merge.cur])
    /\ UNCHANGED <<fetchVars, ctx, probe, otherVars>>

NextMerge ==
    \/ Context_cancel
    \/ Merge_Next
    \/ Merge_Next_body

Next ==
    \/ Fetch_checkConditions
    \/ Fetch_openForSearch
    \/ Fetch_fetch
    \/ Iterator_Next

(***************************************************************************)
(* The block the requests run against: three traces in two row groups.     *)
(* Times fit the narrowest word the model uses.                            *)
(***************************************************************************)
SpanRow(id, name, start, end, status, method, attrs) ==
    [ID |-> id, Name |-> name, StartUnixNanos |-> start, EndUnixNanos |-> end,
     StatusCode |-> status, HttpMethod |-> method, HttpUrl |-> PqNull,
     HttpStatusCode |-> PqNull, Attrs |-> attrs]

BatchRow(attrs, service, spans) ==
    [Attrs |-> attrs, ServiceName |-> service, Cluster |-> PqNull, Namespace |-> PqNull,
     Pod |-> PqNull, Container |-> PqNull, K8sClusterName |-> PqNull,
     K8sNamespaceName |-> PqNull, K8sPodName |-> PqNull, K8sContainerName |-> PqNull,
     Spans |-> spans]

TraceRow(id, start, duration, rootSpan, rootService, batches) ==
    [TraceID |-> id, StartTimeUnixNano |-> start, DurationNanos |-> duration,
     RootSpanName |-> rootSpan, RootServiceName |-> rootService, rs |-> batches]

Trace1 ==
    TraceRow("t1", 1, 4, "db.query", "cart",
        << BatchRow(<<AttrString("foo", "bar")>>, PqBytes("cart"),
              << SpanRow("s1", "db.query", 1, 3, 2, PqBytes("GET"),
                         <<AttrInt("x", 1), AttrString("foo", "baz")>>),
                 SpanRow("s2", "other", 2, 3, 0, PqNull, <<>>) >>),
           BatchRow(<<AttrString("foo", "baz")>>, PqBytes("shop"),
              << SpanRow("s3", "db.query", 3, 5, 1, PqNull,
                         <<AttrInt("x", 1), AttrInt("y", 2)>>) >>) >>)

Trace2 ==
    TraceRow("t2", 5, 1, "other", "cart",
        << BatchRow(<<>>, PqBytes("cart"),
              << SpanRow("s4", "other", 5, 6, 0, PqBytes("GET"),
                         <<AttrString("foo", "bar")>>) >>) >>)

Trace3 ==
    TraceRow("t3", 6, 1, "", "shop",
        << BatchRow(<<AttrString("foo", "bar")>>, PqBytes("shop"), <<>>),
           BatchRow(<<AttrInt("x", 1)>>, PqNull,
              << SpanRow("s5", "", 6, 7, 7, PqNull,
                         <<AttrInt("x", 2), AttrInt("y", 1)>>) >>) >>)

Block == << <<Trace1, Trace2>>, <<Trace3>> >>

(***************************************************************************)
(* Requests.                                                               *)
(***************************************************************************)
\* All sequences over S of length at most n.
RECURSIVE SeqsUpTo(_, _)
SeqsUpTo(S, n) ==
    IF n = 0 THEN {<<>>}
    ELSE LET shorter == SeqsUpTo(S, n - 1) IN
         shorter \cup {Append(s, x) : s \in {q \in shorter : Len(q) = n - 1}, x \in S}

SpanFoo == NewAttribute(AttributeScope.Span, "foo", Intrinsic.None)

\* Conditions that exercise the matching semantics.
MatchConditions ==
    { Cond(NewAttribute(AttributeScope.Span, "x", Intrinsic.None), Op.Equal, <<NewStaticInt(1)>>),
      Cond(NewAttribute(AttributeScope.Span, "y", Intrinsic.None), Op.Equal, <<NewStaticInt(2)>>),
      Cond(NewAttribute(AttributeScope.Resource, "foo", Intrinsic.None), Op.Equal,
           <<NewStaticString("bar")>>),
      Cond(NewAttribute(AttributeScope.None, "foo", Intrinsic.None), Op.Equal,
           <<NewStaticString("bar")>>),
      Cond(SpanFoo, Op.None, <<>>),
      Cond(NewIntrinsic(Intrinsic.Duration), Op.Greater, <<NewStaticDuration(1)>>),
      Cond(NewIntrinsic(Intrinsic.Duration), Op.Equal, <<NewStaticDuration(1)>>),
      Cond(NewIntrinsic(Intrinsic.Name), Op.Equal, <<NewStaticString("db.query")>>),
      Cond(NewIntrinsic(Intrinsic.Name), Op.NotEqual, <<NewStaticString("db.query")>>),
      Cond(NewIntrinsic(Intrinsic.Status), Op.Equal, <<NewStaticStatus(StatusError)>>),
      Cond(NewAttribute(AttributeScope.Resource, Label.ServiceName, Intrinsic.None), Op.Equal,
           <<NewStaticString("cart")>>),
      Cond(NewAttribute(AttributeScope.Resource, Label.ServiceName, Intrinsic.None), Op.None, <<>>),
      Cond(NewAttribute(AttributeScope.Span, Label.HTTPMethod, Intrinsic.None), Op.Equal,
           <<NewStaticString("GET")>>) }

\* Conditions that exercise the validation: every operator with 0, 1 and 2 operands,
\* operands of two types, an unsupported scope and an operand no predicate exists for.
ValidateConditions ==
    { Cond(SpanFoo, op, operands) :
        op \in {Op.None, Op.Equal, Op.NotEqual, Op.Greater, Op.GreaterEqual, Op.Less,
                Op.LessEqual, Op.Regex, Op.NotRegex},
        operands \in {<<>>, <<NewStaticString("bar")>>,
                      <<NewStaticString("bar"), NewStaticString("bar")>>} }
    \cup
    { Cond(SpanFoo, Op.Equal, <<NewStaticInt(1)>>),
      Cond(SpanFoo, Op.And, <<NewStaticInt(1)>>),
      Cond(SpanFoo, Op.Equal, <<NewStaticString("bar"), NewStaticInt(1)>>),
      Cond(NewAttribute(AttributeScope.Unknown, "foo", Intrinsic.None), Op.Equal,
           <<NewStaticString("bar")>>),
      Cond(NewIntrinsic(Intrinsic.Name), Op.Equal, <<NewStaticInt(1)>>) }

\* Conditions that exercise the scope routing: every scope with every intrinsic.
IntrinsicAttrName(i) == IF i = Intrinsic.None THEN "foo" ELSE i

RoutingConditions ==
    { Cond(NewAttribute(scope, IntrinsicAttrName(i), i), Op.None, <<>>) :
        scope \in {AttributeScope.None, AttributeScope.Span, AttributeScope.Resource,
                   AttributeScope.Unknown},
        i \in {Intrinsic.None, Intrinsic.Name, Intrinsic.Status, Intrinsic.Duration,
               Intrinsic.ChildCount} }

\* Conditions of the requests that exercise the time window.
WindowConditions ==
    { Cond(NewAttribute(AttributeScope.Span, "x", Intrinsic.None), Op.Equal, <<NewStaticInt(1)>>) }

\* Conditions that exercise the operand types: every kind of target with every
\* operator and an operand of every type.
OperandTargets ==
    { NewIntrinsic(Intrinsic.Name), NewIntrinsic(Intrinsic.Status),
      NewIntrinsic(Intrinsic.Duration), SpanFoo,
      NewAttribute(AttributeScope.Resource, "foo", Intrinsic.None),
      NewAttribute(AttributeScope.None, "foo", Intrinsic.None),
      NewAttribute(AttributeScope.Span, Label.HTTPMethod, Intrinsic.None),
      NewAttribute(AttributeScope.Resource, Label.ServiceName, Intrinsic.None) }

OperandValues ==
    { NewStaticString("bar"), NewStaticInt(1), NewStaticFloat(1), NewStaticBool(TRUE),
      NewStaticDuration(1), NewStaticStatus(StatusError), NewStaticStatus(StatusOk),
      NewStaticStatus(StatusUnset), NewStaticStatus(7) }

OperandConditions ==
    { Cond(attr, op, <<operand>>) :
        attr \in OperandTargets,
        op \in {Op.Equal, Op.NotEqual, Op.Greater, Op.GreaterEqual, Op.Less, Op.LessEqual,
                Op.Regex},
        operand \in OperandValues }

\* Conditions that exercise the dedicated columns: well-known names of either
\* level under every scope and a name that is not well-known, selected without
\* an operator or compared with an operand of the declared or of another type.
ColumnTargets ==
    { NewAttribute(scope, name, Intrinsic.None) :
        scope \in {AttributeScope.Span, AttributeScope.Resource, AttributeScope.None},
        name \in {Label.HTTPMethod, Label.HTTPStatusCode, Label.ServiceName, Label.Namespace,
                  Label.K8sPodName, "foo"} }

ColumnConditions ==
    { Cond(attr, Op.None, <<>>) : attr \in ColumnTargets } \cup
    { Cond(attr, Op.Equal, <<operand>>) :
        attr \in ColumnTargets,
        operand \in {NewStaticString("cart"), NewStaticInt(1), NewStaticBool(TRUE)} }

\* The conditions that select a dedicated column of their own level.
SelectedColumns ==
    { Cond(NewAttribute(AttributeScope.Span, name, Intrinsic.None), Op.None, <<>>) :
        name \in {Label.HTTPMethod, Label.HTTPStatusCode} } \cup
    { Cond(NewAttribute(AttributeScope.Resource, name, Intrinsic.None), Op.None, <<>>) :
        name \in {Label.ServiceName, Label.Namespace} }

\* One such condition, two that select dedicated columns, or two on the same
\* span-scoped name.
ColumnConditionLists ==
    SeqsUpTo(ColumnConditions, 1) \cup
    { <<c, d>> : c \in SelectedColumns, d \in SelectedColumns } \cup
    { <<c, d>> : c \in { x \in ColumnConditions :
                            x.Attribute = NewAttribute(AttributeScope.Span, Label.HTTPMethod,
                                                       Intrinsic.None) },
                 d \in { x \in ColumnConditions :
                            x.Attribute = NewAttribute(AttributeScope.Span, Label.HTTPMethod,
                                                       Intrinsic.None) } }

NewRequest(conditions, start, end, allConditions) ==
    [Conditions |-> conditions, StartTimeUnixNanos |-> start, EndTimeUnixNanos |-> end,
     AllConditions |-> allConditions]

\* No mergeSpansetIterator and no predicate is in use.
NoMerge == [iters |-> <<>>, cur |-> 0]
NoProbe == [kind |-> "none"]

\* A collaborator that is not in use.
Unused == [kind |-> "none"]

InitOther ==
    /\ slo = Unused
    /\ cli = Unused
    /\ bm = Unused

InitIdle ==
    /\ ctx = "live"
    /\ merge = NoMerge
    /\ calls = <<>>
    /\ returned = <<>>
    /\ inNext = NotInNext
    /\ probe = NoProbe
    /\ InitOther

\* The state when Fetch is called.
InitFetch ==
    /\ pc = "Fetch"
    /\ err = <<>>
    /\ opened = 0
    /\ plan = NoPlan
    /\ cur = 0
    /\ results = <<>>
    /\ InitIdle

\* Fetch is called on the whole block, which can be opened.
InitCall ==
    /\ opts = [StartPage |-> 0, TotalPages |-> 0]
    /\ pf = Block
    /\ openErr = FALSE
    /\ InitFetch

Init ==
    /\ req \in { NewRequest(c, w[1], w[2], a) :
                    c \in SeqsUpTo(MatchConditions, MaxConds),
                    w \in {<<0, 0>>, <<2, 4>>},
                    a \in BOOLEAN }
    /\ InitCall

InitValidate ==
    /\ req \in { NewRequest(c, 0, 0, FALSE) : c \in SeqsUpTo(ValidateConditions, MaxConds) }
    /\ InitCall

InitRouting ==
    /\ req \in { NewRequest(c, 0, 0, a) :
                    c \in SeqsUpTo(RoutingConditions, MaxConds), a \in BOOLEAN }
    /\ InitCall

InitWindow ==
    /\ req \in { NewRequest(c, s, e, FALSE) :
                    c \in SeqsUpTo(WindowConditions, 1),
                    s \in 0..MaxUint64, e \in 0..MaxUint64 }
    /\ InitCall

InitOperands ==
    /\ req \in { NewRequest(c, 0, 0, FALSE) : c \in SeqsUpTo(OperandConditions, 1) }
    /\ InitCall

InitColumns ==
    /\ req \in { NewRequest(c, 0, 0, a) : c \in ColumnConditionLists, a \in BOOLEAN }
    /\ InitCall

\* The integers and the strings (in byte order) offered to the predicates.
ProbeInts == (-MaxProbe..MaxProbe) \cup {MinInt64, MaxInt64}
ProbeStrings == <<"bar", "baz", "foo">>

\* A page and a value of it: smallest value, value, largest value.
ProbeIntPages ==
    { <<PqInt(q[1]), PqInt(q[2]), PqInt(q[3])>> :
        q \in { q \in ProbeInts \X ProbeInts \X ProbeInts : q[1] <= q[2] /\ q[2] <= q[3] } }
ProbeStringPages ==
    { <<PqBytes(ProbeStrings[q[1]]), PqBytes(ProbeStrings[q[2]]), PqBytes(ProbeStrings[q[3]])>> :
        q \in { q \in (1..Len(ProbeStrings)) \X (1..Len(ProbeStrings)) \X (1..Len(ProbeStrings)) :
                 q[1] <= q[2] /\ q[2] <= q[3] } }

NewProbe(create, op, operand, page) ==
    [kind |-> "input", create |-> create, op |-> op, operands |-> <<operand>>,
     min |-> page[1], v |-> page[2], max |-> page[3], keepPage |-> FALSE, keepValue |-> FALSE]

ProbeInputs ==
    { NewProbe("createIntPredicate", op, operand, page) :
        op \in IntOps \cup {Op.Regex},
        operand \in { NewStaticInt(i) : i \in ProbeInts } \cup
                    { NewStaticDuration(i) : i \in ProbeInts },
        page \in ProbeIntPages }
    \cup
    { NewProbe("createStatusPredicate", op, operand, page) :
        op \in IntOps \cup {Op.Regex},
        operand \in { NewStaticInt(i) : i \in ProbeInts } \cup
                    { NewStaticStatus(s) : s \in {StatusError, StatusOk, StatusUnset, 7} },
        page \in ProbeIntPages }
    \cup
    { NewProbe("createStringPredicate", op, NewStaticString(ProbeStrings[s]), page) :
        op \in {Op.NotEqual, Op.Greater},
        s \in 1..Len(ProbeStrings),
        page \in ProbeStringPages }

\* The entries the iterators of an attribute sub-plan hand to the collector: the
\* key column and the four value columns, each with a value or a null.
GroupEntries ==
    { [Key |-> "key", Value |-> v] : v \in {PqBytes("foo"), PqNull} } \cup
    { [Key |-> "string", Value |-> v] : v \in {PqBytes("bar"), PqNull} } \cup
    { [Key |-> "int", Value |-> v] : v \in {PqInt(1), PqNull} } \cup
    { [Key |-> "float", Value |-> v] : v \in {PqInt(2), PqNull} } \cup
    { [Key |-> "bool", Value |-> v] : v \in {PqBool(TRUE), PqNull} }

\* What an earlier group may have left in the scratch result.
StaleOtherEntries ==
    { <<>>, <<[Key |-> "old", Kind |-> "static", Value |-> NewStaticString("stale")]>> }

GroupInputs ==
    { [kind |-> "group", res |-> [Entries |-> es, OtherEntries |-> os]] :
        es \in SeqsUpTo(GroupEntries, MaxEntries), os \in StaleOtherEntries }

\* No Fetch is in progress.
InitNoFetch ==
    /\ req = NewRequest(<<>>, 0, 0, FALSE)
    /\ opts = [StartPage |-> 0, TotalPages |-> 0]
    /\ pf = Block
    /\ openErr = FALSE
    /\ pc = "idle"
    /\ err = <<>>
    /\ opened = 0
    /\ plan = NoPlan
    /\ cur = 0
    /\ results = <<>>

\* A predicate is about to be built and asked.
InitPredicate ==
    /\ InitNoFetch
    /\ ctx = "live"
    /\ merge = NoMerge
    /\ calls = <<>>
    /\ returned = <<>>
    /\ inNext = NotInNext
    /\ probe \in ProbeInputs
    /\ InitOther

\* A group is about to be handed to the attributeCollector.
InitCollector ==
    /\ InitNoFetch
    /\ ctx = "live"
    /\ merge = NoMerge
    /\ calls = <<>>
    /\ returned = <<>>
    /\ inNext = NotInNext
    /\ probe \in GroupInputs
    /\ InitOther

\* The counters of a fresh registry and a hook made by sloHook with any SLOConfig.
InitSLO ==
    /\ InitNoFetch
    /\ ctx = "live"
    /\ merge = NoMerge
    /\ calls = <<>>
    /\ returned = <<>>
    /\ inNext = NotInNext
    /\ probe = NoProbe
    /\ slo \in { [kind |-> "slo",
                  cfg |-> [DurationSLO |-> d, ThroughputBytesSLO |-> t],
                  metrics |-> [all |-> [x \in Tenants |-> 0], within |-> [x \in Tenants |-> 0],
                               observed |-> [x \in Tenants |-> 0]],
                  invoked |-> [x \in Tenants |-> 0],
                  before |-> [all |-> [x \in Tenants |-> 0], within |-> [x \in Tenants |-> 0],
                              observed |-> [x \in Tenants |-> 0]],
                  last |-> NoCall] : d \in SLOBounds, t \in SLOBounds }
    /\ cli = Unused
    /\ bm = Unused

\* processBlock is called with any block id and backend.
InitCLI ==
    /\ InitNoFetch
    /\ ctx = "live"
    /\ merge = NoMerge
    /\ calls = <<>>
    /\ returned = <<>>
    /\ inNext = NotInNext
    /\ probe = NoProbe
    /\ slo = Unused
    /\ cli \in { [kind |-> "call", in |-> i] : i \in CLIInputs }
    /\ bm = Unused

\* A fresh BlockMeta with any dedicated columns.
InitMeta ==
    /\ InitNoFetch
    /\ ctx = "live"
    /\ merge = NoMerge
    /\ calls = <<>>
    /\ returned = <<>>
    /\ inNext = NotInNext
    /\ probe = NoProbe
    /\ slo = Unused
    /\ cli = Unused
    /\ bm \in { [kind |-> "meta", meta |-> NewBlockMetaWithDedicatedColumns(dc),
                 hash |-> NewBlockMetaWithDedicatedColumns(dc).dedicatedColumnsHash,
                 calls |-> 0, ids |-> {}, starts |-> {}, ends |-> {}] : dc \in ColumnConfigs }

\* A mergeSpansetIterator over any iterators, none of them started, and a live
\* context.
InitMerge ==
    /\ InitNoFetch
    /\ ctx = "live"
    /\ merge \in { [iters |-> [k \in 1..Len(its) |-> [its[k] EXCEPT !.id = k]], cur |-> 0] :
                     its \in SeqsUpTo({ NewGenIterator(n) : n \in 0..MaxLeft }, MaxIters) }
    /\ calls = <<>>
    /\ returned = <<>>
    /\ inNext = NotInNext
    /\ probe = NoProbe
    /\ InitOther

\* The files of the storage: the block cut after any number of row groups.
Files == { SubSeq(Block, 1, n) : n \in 0..Len(Block) }

\* Fetch is called with any page range on any file, which the backend may fail
\* to open.
InitStorage ==
    /\ req \in { NewRequest(c, 0, 0, FALSE) : c \in SeqsUpTo(WindowConditions, 1) }
    /\ opts \in [StartPage : 0..MaxPage, TotalPages : 0..MaxPage]
    /\ pf \in Files
    /\ openErr \in BOOLEAN
    /\ InitFetch

Spec == Init /\ [][Next]_vars
SpecValidate == InitValidate /\ [][Next]_vars
SpecRouting == InitRouting /\ [][Next]_vars
SpecWindow == InitWindow /\ [][Next]_vars
SpecOperands == InitOperands /\ [][Next]_vars
SpecStorage == InitStorage /\ [][Next]_vars
SpecColumns == InitColumns /\ [][Next]_vars
SpecPredicate == InitPredicate /\ [][NextPredicate]_vars
SpecMerge == InitMerge /\ [][NextMerge]_vars
SpecCollector == InitCollector /\ [][NextCollector]_vars
SpecSLO == InitSLO /\ [][NextSLO]_vars
SpecCLI == InitCLI /\ [][NextCLI]_vars
SpecMeta == InitMeta /\ [][NextMeta]_vars

(***************************************************************************)
(* Properties.  The request, the block and the plan are read from the      *)
(* state; what a condition asks for is restated here from the contract,    *)
(* not taken from the operators above.                                     *)
(***************************************************************************)
\* The (operator, operand count) pairs the contract admits.
ArityOk(cond) ==
    \/ cond.Op = Op.None /\ Len(cond.Operands) = 0
    \/ /\ cond.Op \in {Op.Equal, Op.NotEqual, Op.Greater, Op.GreaterEqual, Op.Less, Op.LessEqual,
                       Op.Regex}
       /\ Len(cond.Operands) = 1

\* Fetch has returned the error of checkConditions.
RejectedInvalid == pc = "failed" /\ err[1] = "conditions invalid"

\* C1: once checkConditions has run, Fetch has failed with "conditions invalid" if
\* and only if some condition is neither op=none with 0 operands nor one of
\* =, !=, >, >=, <, <=, regex with exactly 1 operand; nothing but the
\* (operator, operand count) pairs of the list decides it.
C1_CheckConditions ==
    pc # "Fetch" =>
        (RejectedInvalid <=> \E k \in 1..Len(req.Conditions) : ~ArityOk(req.Conditions[k]))

\* A list whose first condition is well-formed and whose second has one operand too
\* many has been rejected.
C1_Witness ==
    /\ RejectedInvalid
    /\ Len(req.Conditions) = 2
    /\ ArityOk(req.Conditions[1])
    /\ req.Conditions[2].Op = Op.Equal
    /\ Len(req.Conditions[2].Operands) = 2

\* C2: every request Fetch rejects (wrong operand count, unknown operator,
\* unsupported attribute scope, an operand no predicate can be built for) is
\* rejected before the block file is opened.
C2_EagerValidation == pc = "failed" => opened = 0

\* The scopes fetch knows.
KnownScope(cond) ==
    cond.Attribute.Scope \in {AttributeScope.None, AttributeScope.Span, AttributeScope.Resource}

\* A condition without scope on one of the intrinsics name, status, duration.
UnscopedIntrinsic(cond) ==
    /\ cond.Attribute.Scope = AttributeScope.None
    /\ cond.Attribute.Intrinsic \in {Intrinsic.Name, Intrinsic.Status, Intrinsic.Duration}

\* A condition without scope that is no such intrinsic: it goes to both levels.
Mingled(cond) == cond.Attribute.Scope = AttributeScope.None /\ ~UnscopedIntrinsic(cond)

InSeq(x, s) == \E k \in 1..Len(s) : s[k] = x

\* fetch has returned, with a plan or with an error.
Planned == pc \in {"iter", "done"}
Fetched == opened = 1 /\ pc # "fetch"

\* C3: a span-scoped condition is in the span list only, a resource-scoped one in
\* the resource list only, an unscoped one in both, except an unscoped intrinsic
\* (name, status, duration), which is in the span list only; a condition of any
\* other scope makes fetch fail.
C3_ScopeRouting ==
    /\ Planned =>
        \A k \in 1..Len(req.Conditions) :
            LET cond == req.Conditions[k]
                inSpan == InSeq(cond, plan.spanConditions)
                inResource == InSeq(cond, plan.resourceConditions)
            IN /\ KnownScope(cond)
               /\ (cond.Attribute.Scope = AttributeScope.Span \/ UnscopedIntrinsic(cond))
                    => (inSpan /\ ~inResource)
               /\ cond.Attribute.Scope = AttributeScope.Resource => (inResource /\ ~inSpan)
               /\ Mingled(cond) => (inSpan /\ inResource)
    /\ (Fetched /\ \E k \in 1..Len(req.Conditions) : ~KnownScope(req.Conditions[k]))
        => (pc = "failed" /\ err = <<"creating fetch iter", "unsupported traceql scope">>)

\* A plan was built for an unscoped intrinsic next to an unscoped attribute.
C3_Witness ==
    /\ Planned
    /\ \E k \in 1..Len(req.Conditions) : UnscopedIntrinsic(req.Conditions[k])
    /\ \E k \in 1..Len(req.Conditions) : Mingled(req.Conditions[k])
    /\ Len(plan.spanConditions) = 2
    /\ Len(plan.resourceConditions) = 1

\* C4: the allConditions flag the iterators are built with is false whenever a
\* condition without scope and without intrinsic is present, and equals
\* req.AllConditions whenever no condition is mingled.
C4_AllConditions ==
    Planned =>
        /\ (\E k \in 1..Len(req.Conditions) :
                /\ req.Conditions[k].Attribute.Scope = AttributeScope.None
                /\ req.Conditions[k].Attribute.Intrinsic = Intrinsic.None)
            => ~plan.allConditions
        /\ (\A k \in 1..Len(req.Conditions) : ~Mingled(req.Conditions[k]))
            => plan.allConditions = req.AllConditions

\* AllConditions was asked for next to a mingled condition, and the plan has it off.
C4_Witness ==
    /\ Planned
    /\ req.AllConditions
    /\ \E k \in 1..Len(req.Conditions) :
            /\ req.Conditions[k].Attribute.Scope = AttributeScope.None
            /\ req.Conditions[k].Attribute.Intrinsic = Intrinsic.None
    /\ ~plan.allConditions

\* The trace rows of the block, and where its spans are: <<trace, batch, span>>.
TraceRows == Flatten(pf)

Sites ==
    UNION {UNION {{<<t, b, s>> : s \in 1..Len(TraceRows[t].rs[b].Spans)} :
                    b \in 1..Len(TraceRows[t].rs)} :
            t \in 1..Len(TraceRows)}

SiteBatch(x) == TraceRows[x[1]].rs[x[2]]
SiteSpan(x) == TraceRows[x[1]].rs[x[2]].Spans[x[3]]

\* Span IDs are unique in the block: the row a returned span was read from.
SiteOf(span) == CHOOSE x \in Sites : SiteSpan(x).ID = span.ID

\* The spans of the spansets returned so far.
ReturnedSpans ==
    UNION {{results[r].Spans[j] : j \in 1..Len(results[r].Spans)} : r \in 1..Len(results)}

\* The attributes a span carries, by level.
SpanLevelAttrs(span) ==
    {a \in DOMAIN span.Attributes : a.Scope # AttributeScope.Resource}
ResourceLevelAttrs(span) ==
    {a \in DOMAIN span.Attributes : a.Scope = AttributeScope.Resource}
NonNil(span, attrs) == {a \in attrs : span.Attributes[a].Type # StaticType.Nil}

NamesOf(conditions) == {conditions[k].Attribute.Name : k \in 1..Len(conditions)}

\* C5: with the effective allConditions flag on, every returned span carries at
\* least as many non-nil attributes as the conditions have distinct names: the
\* names of the span conditions counted on the span's own attributes, the names of
\* the resource conditions on the batch attributes copied to it.
C5_MinCount ==
    (Planned /\ plan.allConditions) =>
        \A span \in ReturnedSpans :
            /\ Cardinality(NonNil(span, SpanLevelAttrs(span)))
                    >= Cardinality(NamesOf(plan.spanConditions))
            /\ Cardinality(NonNil(span, ResourceLevelAttrs(span)))
                    >= Cardinality(NamesOf(plan.resourceConditions))

\* What the block holds for the attribute of a condition at a site, as statics.
StatusOf(code) ==
    CASE code = 0 -> NewStaticStatus(StatusUnset)
      [] code = 1 -> NewStaticStatus(StatusOk)
      [] code = 2 -> NewStaticStatus(StatusError)
      [] OTHER -> NewStaticStatus(code)

ColumnStatic(v) ==
    CASE v.Kind = Kind.ByteArray -> {NewStaticString(v.S)}
      [] v.Kind = Kind.Int64 -> {NewStaticInt(v.N)}
      [] v.Kind = Kind.Boolean -> {NewStaticBool(v.B)}
      [] OTHER -> {}

AttrRowStatics(arows, name) ==
    UNION {ColumnStatic(arows[k].Value) \cup ColumnStatic(arows[k].ValueInt)
                \cup ColumnStatic(arows[k].ValueBool) :
            k \in {j \in 1..Len(arows) : arows[j].Key.S = name}}

ValuesAt(attr, x) ==
    CASE attr.Intrinsic = Intrinsic.Name -> {NewStaticString(SiteSpan(x).Name)}
      [] attr.Intrinsic = Intrinsic.Duration ->
            {NewStaticDuration(SiteSpan(x).EndUnixNanos - SiteSpan(x).StartUnixNanos)}
      [] attr.Intrinsic = Intrinsic.Status -> {StatusOf(SiteSpan(x).StatusCode)}
      [] attr.Scope = AttributeScope.Span ->
            AttrRowStatics(SiteSpan(x).Attrs, attr.Name)
                \cup (IF attr.Name = Label.HTTPMethod
                      THEN ColumnStatic(SiteSpan(x).HttpMethod) ELSE {})
      [] attr.Scope = AttributeScope.Resource ->
            AttrRowStatics(SiteBatch(x).Attrs, attr.Name)
                \cup (IF attr.Name = Label.ServiceName
                      THEN ColumnStatic(SiteBatch(x).ServiceName) ELSE {})
      [] OTHER -> {}

Compare(op, v, operand) ==
    CASE op = Op.Equal -> v = operand
      [] op = Op.NotEqual -> v # operand
      [] op = Op.Greater -> v.N > operand.N \/ v.D > operand.D
      [] OTHER -> FALSE

\* The condition holds at the site.  A condition without operator asks for no more
\* than the attribute's value and holds everywhere.
Satisfies(cond, x) ==
    \/ cond.Op = Op.None
    \/ \E v \in ValuesAt(cond.Attribute, x) :
            v.Type = cond.Operands[1].Type /\ Compare(cond.Op, v, cond.Operands[1])

\* C6: with the effective allConditions flag on, every returned span satisfies
\* every condition of the request, the span conditions on the span and the
\* resource conditions on its batch.
C6_AndSemantics ==
    (Planned /\ plan.allConditions) =>
        \A span \in ReturnedSpans :
            \A k \in 1..Len(req.Conditions) : Satisfies(req.Conditions[k], SiteOf(span))

\* The time window of the request is set.
WindowSet == req.StartTimeUnixNanos # 0 /\ req.EndTimeUnixNanos # 0

\* The span row overlaps the window, as unsigned times.
Overlaps(srow) ==
    WindowSet =>
        /\ srow.StartUnixNanos <= req.EndTimeUnixNanos
        /\ srow.EndUnixNanos >= req.StartTimeUnixNanos

\* The IDs of the spans of a trace row that overlap the window, in row order.
OverlappingIDs(trow) ==
    Flatten([b \in 1..Len(trow.rs) |->
        Flatten([s \in 1..Len(trow.rs[b].Spans) |->
            IF Overlaps(trow.rs[b].Spans[s]) THEN <<trow.rs[b].Spans[s].ID>> ELSE <<>>])])

SpanIDs(spanset) == [j \in 1..Len(spanset.Spans) |-> spanset.Spans[j].ID]

\* C7: a request without conditions, once its results are drained, has yielded for
\* every trace with a span overlapping the window exactly one spanset, holding
\* every such span of the trace.
C7_EmptyQuery ==
    (pc = "done" /\ req.Conditions = <<>>) =>
        \A t \in 1..Len(TraceRows) :
            OverlappingIDs(TraceRows[t]) # <<>> =>
                /\ Cardinality({r \in 1..Len(results) :
                                    results[r].TraceID = TraceRows[t].TraceID}) = 1
                /\ \A r \in 1..Len(results) :
                        results[r].TraceID = TraceRows[t].TraceID
                            => SpanIDs(results[r]) = OverlappingIDs(TraceRows[t])

\* C8: with both bounds of the window set, every returned span starts no later
\* than req.EndTimeUnixNanos and ends no earlier than req.StartTimeUnixNanos,
\* whatever unsigned values the bounds have.
C8_TimeWindow ==
    WindowSet =>
        \A span \in ReturnedSpans :
            /\ span.StartTimeUnixNanos <= req.EndTimeUnixNanos
            /\ span.EndtimeUnixNanos >= req.StartTimeUnixNanos

\* The spansets the batch level emits for a trace row, in row order.
BatchSpansets(trow) ==
    SelectSeq([b \in 1..Len(trow.rs) |->
                    BatchRowResult(plan.resourceIter, plan.spanIter, trow.rs[b])],
              LAMBDA out : out.keep)

\* The spans of batch spansets, concatenated in order.
ConcatSpans(outs) == Flatten([b \in 1..Len(outs) |-> outs[b].spanset.Spans])

\* The spanset the contract promises for a trace row with surviving batches.
ExpectedSpanset(trow) ==
    [TraceID |-> trow.TraceID,
     StartTimeUnixNanos |-> trow.StartTimeUnixNano,
     DurationNanos |-> trow.DurationNanos,
     RootSpanName |-> trow.RootSpanName,
     RootServiceName |-> trow.RootServiceName,
     Spans |-> ConcatSpans(BatchSpansets(trow))]

\* C9: the stream holds at most one spanset per trace and no span twice in a
\* spanset; drained, it is, in row order, one spanset for each trace row with a
\* surviving batch: the spans of its batch spansets concatenated, under the
\* trace-level columns.
C9_SpansetIdentity ==
    /\ \A r1, r2 \in 1..Len(results) : results[r1].TraceID = results[r2].TraceID => r1 = r2
    /\ \A r \in 1..Len(results) :
            \A j1, j2 \in 1..Len(results[r].Spans) :
                results[r].Spans[j1].ID = results[r].Spans[j2].ID => j1 = j2
    /\ pc = "done" =>
            results = Flatten([t \in 1..Len(plan.rows) |->
                                  IF BatchSpansets(plan.rows[t]) # <<>>
                                  THEN <<ExpectedSpanset(plan.rows[t])>>
                                  ELSE <<>>])

\* A drained stream with two spansets, one of them made of two batch spansets.
C9_Witness ==
    /\ pc = "done"
    /\ Len(results) = 2
    /\ \E t \in 1..Len(plan.rows) :
            /\ Len(BatchSpansets(plan.rows[t])) = 2
            /\ \E r \in 1..Len(results) :
                    /\ results[r].TraceID = plan.rows[t].TraceID
                    /\ Len(results[r].Spans) = 3

\* The resource attributes batchCollector gathered for the batch of a site.
CollectedResAttrs(x) ==
    batchResAttrs(BatchGroup(plan.resourceIter, plan.spanIter, SiteBatch(x)).res)

\* C10 as stated: every returned span carries every resource attribute collected
\* for its batch.
C10_EveryCollected ==
    Planned =>
        \A span \in ReturnedSpans :
            DOMAIN CollectedResAttrs(SiteOf(span)) \subseteq DOMAIN span.Attributes

\* The span carries, with its value, every non-nil attribute of resAttrs and none
\* of its nil-typed ones.
Propagated(span, resAttrs) ==
    \A a \in DOMAIN resAttrs :
        IF resAttrs[a].Type # StaticType.Nil
        THEN /\ a \in DOMAIN span.Attributes
             /\ span.Attributes[a] = resAttrs[a]
        ELSE a \notin DOMAIN span.Attributes

\* C10, amended: every returned span carries, with its value, every resource
\* attribute of non-nil type collected for its batch; the attributes collected
\* with the nil type (key found, no value matched) are on no returned span.
C10_Propagation ==
    Planned =>
        \A span \in ReturnedSpans : Propagated(span, CollectedResAttrs(SiteOf(span)))

\* A returned span carries a resource attribute of its batch, and another returned
\* span's batch had one collected with the nil type.
C10_Witness ==
    /\ Planned
    /\ \E span \in ReturnedSpans :
            \E a \in DOMAIN CollectedResAttrs(SiteOf(span)) :
                /\ CollectedResAttrs(SiteOf(span))[a].Type # StaticType.Nil
                /\ a \in DOMAIN span.Attributes
    /\ \E span \in ReturnedSpans :
            \E a \in DOMAIN CollectedResAttrs(SiteOf(span)) :
                CollectedResAttrs(SiteOf(span))[a].Type = StaticType.Nil

\* C11: a returned span that carries a span-scoped attribute of some name carries no
\* resource-scoped attribute of that name.
C11_Shadowing ==
    Planned =>
        \A span \in ReturnedSpans :
            \A a, b \in DOMAIN span.Attributes :
                (a.Scope = AttributeScope.Span /\ b.Name = a.Name) => b = a

\* Every spanset of outs has a span, and every span of it has an attribute, none of
\* nil type.
AllAttributed(spansets) ==
    \A r \in 1..Len(spansets) :
        /\ Len(spansets[r].Spans) > 0
        /\ \A j \in 1..Len(spansets[r].Spans) :
                /\ DOMAIN spansets[r].Spans[j].Attributes # {}
                /\ \A a \in DOMAIN spansets[r].Spans[j].Attributes :
                        spansets[r].Spans[j].Attributes[a].Type # StaticType.Nil

BatchSpansetsOf(outs) == [b \in 1..Len(outs) |-> outs[b].spanset]

\* C12: for a request with at least one condition, every returned span has at least
\* one attribute and none of nil type, and so has every span of every spanset the
\* batch level emits: a batch whose spans all end without attributes emits none.
C12_NonEmptySpans ==
    (Planned /\ Len(req.Conditions) > 0) =>
        /\ AllAttributed(results)
        /\ \A t \in 1..Len(plan.rows) :
                AllAttributed(BatchSpansetsOf(BatchSpansets(plan.rows[t])))

\* A drained request with conditions returned a spanset of a trace one of whose
\* spans was left out.
C12_Witness ==
    /\ pc = "done"
    /\ Len(req.Conditions) > 0
    /\ \E r \in 1..Len(results) :
            \E x \in Sites :
                /\ TraceRows[x[1]].TraceID = results[r].TraceID
                /\ \A j \in 1..Len(results[r].Spans) : results[r].Spans[j].ID # SiteSpan(x).ID

\* The values the block holds for the attribute of a condition at a site; an
\* attribute without scope is looked for on the span and on its batch.
AnyScopeValues(attr, x) ==
    IF attr.Scope = AttributeScope.None /\ attr.Intrinsic = Intrinsic.None
    THEN ValuesAt([attr EXCEPT !.Scope = AttributeScope.Span], x)
            \cup ValuesAt([attr EXCEPT !.Scope = AttributeScope.Resource], x)
    ELSE ValuesAt(attr, x)

\* The site has the attribute of the condition, with a value the condition accepts.
Matches(cond, x) ==
    \E v \in AnyScopeValues(cond.Attribute, x) :
        \/ cond.Op = Op.None
        \/ v.Type = cond.Operands[1].Type /\ Compare(cond.Op, v, cond.Operands[1])

\* C13: for a request with at least one condition, every returned span matches at
\* least one of the conditions: the span or its batch has the attribute the
\* condition names, with a value that satisfies that condition.
C13_AnyMatch ==
    (Planned /\ Len(req.Conditions) > 0) =>
        \A span \in ReturnedSpans :
            \E k \in 1..Len(req.Conditions) : Matches(req.Conditions[k], SiteOf(span))

\* The position of a site in the file: trace row, then batch, then span.
SiteBefore(x, y) ==
    \/ x[1] < y[1]
    \/ x[1] = y[1] /\ x[2] < y[2]
    \/ x[1] = y[1] /\ x[2] = y[2] /\ x[3] < y[3]

\* The index of the trace row a spanset was built from (trace IDs are unique).
RowOf(spanset) == CHOOSE t \in 1..Len(TraceRows) : TraceRows[t].TraceID = spanset.TraceID

\* C16: the spansets come in the row order of their traces, and the spans of a
\* spanset in the order of their rows in the file (batch, then span).
C16_Ordering ==
    /\ \A r1, r2 \in 1..Len(results) :
            r1 < r2 => RowOf(results[r1]) < RowOf(results[r2])
    /\ \A r \in 1..Len(results) :
            \A j1, j2 \in 1..Len(results[r].Spans) :
                j1 < j2 => SiteBefore(SiteOf(results[r].Spans[j1]), SiteOf(results[r].Spans[j2]))

\* Three spansets were returned; the first holds the spans of two batches, two of
\* them of one batch.
C16_Witness ==
    /\ Len(results) = 3
    /\ Len(results[1].Spans) = 3
    /\ SiteOf(results[1].Spans[1])[2] = SiteOf(results[1].Spans[2])[2]
    /\ SiteOf(results[1].Spans[2])[2] # SiteOf(results[1].Spans[3])[2]

\* A condition on an attribute that is no intrinsic and has no dedicated column.
GenericTarget(cond) ==
    /\ cond.Attribute.Intrinsic = Intrinsic.None
    /\ cond.Attribute.Name \notin DOMAIN wellKnownColumnLookups

\* The operand of the condition cannot be compared with its target: a non-string
\* with the name, a string with the status, a string or boolean under an ordering
\* operator, a duration or status with a generic attribute.
Incomparable(cond) ==
    /\ cond.Op # Op.None
    /\ Len(cond.Operands) = 1
    /\ \/ /\ cond.Attribute.Intrinsic = Intrinsic.Name
          /\ cond.Operands[1].Type # StaticType.String
       \/ /\ cond.Attribute.Intrinsic = Intrinsic.Status
          /\ cond.Operands[1].Type = StaticType.String
       \/ /\ cond.Op \in {Op.Greater, Op.GreaterEqual, Op.Less, Op.LessEqual}
          /\ cond.Operands[1].Type \in {StaticType.String, StaticType.Boolean}
       \/ /\ GenericTarget(cond)
          /\ cond.Operands[1].Type \in {StaticType.Duration, StaticType.Status}

\* C14: fetch builds no plan for a request with a condition whose operand cannot
\* be compared with its target; Fetch fails instead.
C14_PlanTimeError ==
    Planned => \A k \in 1..Len(req.Conditions) : ~Incomparable(req.Conditions[k])

\* The request is the single condition status = s with s of status type.
StatusEqualsRequest ==
    /\ Len(req.Conditions) = 1
    /\ req.Conditions[1].Attribute = NewIntrinsic(Intrinsic.Status)
    /\ req.Conditions[1].Op = Op.Equal
    /\ Len(req.Conditions[1].Operands) = 1
    /\ req.Conditions[1].Operands[1].Type = StaticType.Status

IsReturned(x) == \E span \in ReturnedSpans : span.ID = SiteSpan(x).ID

\* C19: stored code 0 is reported as unset, 1 as ok, 2 as error and any other code
\* as the raw ordinal; and under the request status = s the spans returned are
\* exactly those whose stored code is reported as s.
C19_StatusMapping ==
    /\ \A span \in ReturnedSpans :
            NewIntrinsic(Intrinsic.Status) \in DOMAIN span.Attributes =>
                span.Attributes[NewIntrinsic(Intrinsic.Status)]
                    = StatusOf(SiteSpan(SiteOf(span)).StatusCode)
    /\ (pc = "done" /\ StatusEqualsRequest) =>
            \A x \in Sites :
                IsReturned(x) <=> StatusOf(SiteSpan(x).StatusCode) = req.Conditions[1].Operands[1]

\* The row groups a page range selects: those numbered from StartPage up to, and
\* not including, StartPage + TotalPages, as far as the file has them; all of
\* them when TotalPages is not positive.
InPageRange(n) ==
    \/ opts.TotalPages <= 0
    \/ opts.StartPage <= n /\ n < opts.StartPage + opts.TotalPages

\* C17: the page range never makes Fetch fail, whatever StartPage and TotalPages
\* are, and the plan scans the rows of exactly the selected row groups that the
\* file has (none when StartPage is at or beyond their number).
C17_RowGroups ==
    /\ pc # "panicked"
    /\ Planned =>
        plan.rows = Flatten([n \in 1..Len(pf) |-> IF InPageRange(n - 1) THEN pf[n] ELSE <<>>])

\* C18: when the block file cannot be opened, Fetch does not fail with the error
\* of the open; it returns a stream.
C18_LazyOpenError == pc = "failed" => err # <<OpenError>>

\* C20: a predicate built by createIntPredicate, by createStatusPredicate or as
\* the string != predicate never prunes a page holding a value it accepts: when
\* it accepts a value lying between the smallest and the largest value of a
\* page, it keeps the page.
C20_PruningSound == probe.kind = "kept" /\ probe.keepValue => probe.keepPage

\* A != predicate accepted a value of a page whose smallest value is its operand.
C20_Witness ==
    /\ probe.kind = "kept"
    /\ probe.create = "createIntPredicate"
    /\ probe.op = Op.NotEqual
    /\ probe.operands[1].N = probe.min.N
    /\ probe.min.N < probe.v.N
    /\ probe.keepValue
    /\ probe.keepPage

\* C15: of the Next calls made after the context was cancelled, only the first
\* may return normally (a spanset or the end of the stream); every later one
\* returns the cancellation error.
C15_Cancellation == \A k \in 2..Len(calls) : calls[k] = "cancelled"

\* C28: the spansets come out iterator by iterator and, within one iterator, in
\* its own order; once a spanset of an iterator is out, every iterator before it
\* is drained; the end of the stream is returned only when every iterator has
\* returned its end, and is returned again by every later call; an error of an
\* iterator leaves that iterator the current one.
C28_MergeOrder ==
    /\ \A j \in 1..Len(returned) : \A k \in 1..Len(returned) :
        (j < k /\ returned[j].ret = "spanset" /\ returned[k].ret = "spanset") =>
            \/ returned[j].src < returned[k].src
            \/ returned[j].src = returned[k].src /\ returned[j].val > returned[k].val
    /\ \A k \in 1..Len(returned) :
        returned[k].ret = "spanset" =>
            \A c \in 1..(returned[k].src - 1) : merge.iters[c].left = 0 /\ merge.iters[c].done
    /\ \A k \in 1..Len(returned) :
        returned[k].ret = "end" =>
            /\ \A c \in 1..Len(merge.iters) : merge.iters[c].left = 0 /\ merge.iters[c].done
            /\ \A j \in k..Len(returned) : returned[j].ret = "end"
    /\ \A k \in 1..Len(returned) :
        returned[k].ret = "cancelled" => returned[k].cur + 1 = returned[k].src

\* Two iterators were drained in turn, the first of more than one spanset, and
\* the end of the stream was returned twice.
C28_Witness ==
    /\ Len(returned) >= 5
    /\ returned[1].ret = "spanset" /\ returned[1].src = 1
    /\ returned[2].ret = "spanset" /\ returned[2].src = 1
    /\ returned[3].ret = "spanset" /\ returned[3].src = 2
    /\ returned[Len(returned) - 1].ret = "end"
    /\ returned[Len(returned)].ret = "end"

\* The column iterators createResourceColumIterators returned, as they stand in
\* the resource level of the plan (directly, or inside the union iterator).
ResourceLevelIters(iters) ==
    Flatten([k \in 1..Len(iters) |->
                IF iters[k].kind = "union" THEN iters[k].iters ELSE <<iters[k]>>])

\* The iterators among them built for a column of columnPredicates: those on
\* the path, with an or-predicate.
RegisteredIters(iters, path) ==
    SelectSeq(iters, LAMBDA it : it.kind = "col" /\ it.path = path /\ it.pred.kind = "Or")

\* C27: the plan holds at most one iterator for each resource column that a
\* condition registered through addPredicate.
C27_EmittedOnce ==
    Planned =>
        \A k \in 1..Len(plan.resourceConditions) :
            resCondKind(plan.resourceConditions[k]) = "column" =>
                Len(RegisteredIters(
                        ResourceLevelIters(plan.resourceIter.required \o plan.resourceIter.optional),
                        resCondPath(plan.resourceConditions[k]))) <= 1

\* The static an entry of a value column stands for.
TypedStatic(e) ==
    CASE e.Key = "string" -> NewStaticString(e.Value.S)
      [] e.Key = "int" -> NewStaticInt(e.Value.N)
      [] e.Key = "float" -> NewStaticFloat(e.Value.N)
      [] e.Key = "bool" -> NewStaticBool(e.Value.B)

\* The entries of a group that are not null: those of the key column, those of
\* the value columns.
NonNullKeys(entries) == SelectSeq(entries, LAMBDA e : e.Key = "key" /\ ~IsNull(e.Value))
NonNullValues(entries) == SelectSeq(entries, LAMBDA e : e.Key # "key" /\ ~IsNull(e.Value))

\* What is left of a group is one pair and no entry, and the pair is that of the
\* group: the key of its key entry, and the static of its one value entry, or
\* the nil static when it has none.
CollapsedTo(after, keys, values) ==
    /\ after.Entries = <<>>
    /\ Len(after.OtherEntries) = 1
    /\ Len(keys) = 1 => after.OtherEntries[1].Key = keys[1].Value.S
    /\ Len(values) = 0 => after.OtherEntries[1].Value.Type = StaticType.Nil
    /\ Len(values) = 1 => after.OtherEntries[1].Value = TypedStatic(values[1])

\* C26: attributeCollector keeps every group and leaves of it exactly one pair
\* (key, value) in OtherEntries and no entry: nulls are skipped, the value is
\* the typed static of the value entry that is not null, and the nil static when
\* only the key is not null.
C26_Collapse ==
    probe.kind = "collected" =>
        /\ probe.keep
        /\ CollapsedTo(probe.after, NonNullKeys(probe.res.Entries), NonNullValues(probe.res.Entries))

\* A group with a key, a null value column and an int value was collapsed over
\* the pair an earlier group had left.
C26_Witness ==
    /\ probe.kind = "collected"
    /\ probe.res.OtherEntries # <<>>
    /\ Len(probe.res.Entries) = 3
    /\ probe.res.Entries[1] = [Key |-> "key", Value |-> PqBytes("foo")]
    /\ probe.res.Entries[2] = [Key |-> "string", Value |-> PqNull]
    /\ probe.res.Entries[3] = [Key |-> "int", Value |-> PqInt(1)]
    /\ probe.after.OtherEntries = <<[Key |-> "foo", Kind |-> "static", Value |-> NewStaticInt(1)]>>

\* The iterators of one level of the plan, those inside a union included.
LevelIters(it) == ResourceLevelIters(it.required \o it.optional)

\* The predicate a condition asks for: none when it only selects.
CondPredicate(cond) ==
    IF cond.Op = Op.None THEN NilPredicate ELSE createPredicate(cond.Op, cond.Operands).val

\* The condition stands as a predicate on the dedicated column of its name:
\* an iterator of the level reads that column with the predicate of the
\* condition, alone or among those or-ed.
OnDedicatedColumn(cond, iters) ==
    /\ cond.Attribute.Name \in DOMAIN wellKnownColumnLookups
    /\ \E k \in 1..Len(iters) :
        /\ iters[k].kind = "col"
        /\ iters[k].path = wellKnownColumnLookups[cond.Attribute.Name].columnPath
        /\ \/ iters[k].pred = CondPredicate(cond)
           \/ /\ iters[k].pred.kind = "Or"
              /\ \E j \in 1..Len(iters[k].pred.preds) : iters[k].pred.preds[j] = CondPredicate(cond)

\* The condition is in the generic attribute sub-plan of the level: the key
\* iterator of the attribute iterator asks for its name.
InGenericSubPlan(cond, iters) ==
    \E k \in 1..Len(iters) :
        /\ iters[k].kind = "attr"
        /\ \E j \in 1..Len(iters[k].key.pred.ss) : iters[k].key.pred.ss[j] = cond.Attribute.Name

\* The name is a well-known column of the level and the operand is of its type.
TypedWellKnown(cond, level) ==
    /\ cond.Attribute.Name \in DOMAIN wellKnownColumnLookups
    /\ wellKnownColumnLookups[cond.Attribute.Name].level = level
    /\ Len(cond.Operands) > 0
    /\ cond.Operands[1].Type = wellKnownColumnLookups[cond.Attribute.Name].typ

\* The name is a well-known column of the level and the condition only selects.
SelectedWellKnown(cond, level) ==
    /\ cond.Attribute.Name \in DOMAIN wellKnownColumnLookups
    /\ wellKnownColumnLookups[cond.Attribute.Name].level = level
    /\ cond.Op = Op.None

\* The conditions of one level of the plan that name no intrinsic.
NonIntrinsic(conditions) == SelectSeq(conditions, LAMBDA c : c.Attribute.Intrinsic = Intrinsic.None)

\* C25 as stated: a condition of a level stands on a dedicated column exactly
\* when its name is a well-known column of the level and its operand is of the
\* declared type; every other one is in the generic attribute sub-plan.
RoutedAsStated(conditions, iters, level) ==
    \A k \in 1..Len(conditions) :
        /\ OnDedicatedColumn(conditions[k], iters) <=> TypedWellKnown(conditions[k], level)
        /\ ~TypedWellKnown(conditions[k], level) => InGenericSubPlan(conditions[k], iters)

C25_DedicatedRouting ==
    Planned =>
        /\ RoutedAsStated(NonIntrinsic(plan.spanConditions), LevelIters(plan.spanIter),
                          AttributeScope.Span)
        /\ RoutedAsStated(NonIntrinsic(plan.resourceConditions), LevelIters(plan.resourceIter),
                          AttributeScope.Resource)

\* C25, amended: a condition of a level stands on a dedicated column exactly
\* when its name is a well-known column of the level and either it only selects
\* (no operator) or its operand is of the declared type; every other one is in
\* the generic attribute sub-plan, and only those are.
RoutedAmended(conditions, iters, level) ==
    \A k \in 1..Len(conditions) :
        /\ OnDedicatedColumn(conditions[k], iters) <=>
              (TypedWellKnown(conditions[k], level) \/ SelectedWellKnown(conditions[k], level))
        /\ ~(TypedWellKnown(conditions[k], level) \/ SelectedWellKnown(conditions[k], level))
              => InGenericSubPlan(conditions[k], iters)

C25_DedicatedOrSelected ==
    Planned =>
        /\ RoutedAmended(NonIntrinsic(plan.spanConditions), LevelIters(plan.spanIter),
                         AttributeScope.Span)
        /\ RoutedAmended(NonIntrinsic(plan.resourceConditions), LevelIters(plan.resourceIter),
                         AttributeScope.Resource)

\* A plan was built for http.method compared with a string and with an int: the
\* first stands on the dedicated column, the second is in the generic sub-plan
\* and not on the column.
C25_Witness ==
    /\ Planned
    /\ Len(plan.spanConditions) = 2
    /\ TypedWellKnown(plan.spanConditions[1], AttributeScope.Span)
    /\ plan.spanConditions[2].Attribute.Name = Label.HTTPMethod
    /\ plan.spanConditions[2].Operands = <<NewStaticInt(1)>>
    /\ OnDedicatedColumn(plan.spanConditions[1], LevelIters(plan.spanIter))
    /\ ~OnDedicatedColumn(plan.spanConditions[2], LevelIters(plan.spanIter))
    /\ InGenericSubPlan(plan.spanConditions[2], LevelIters(plan.spanIter))

\* By how much the last call of the hook raised a counter of a tenant.
Raised(counter, tenant) == slo.metrics[counter][tenant] - slo.before[counter][tenant]

HookCalled == slo.kind = "slo" /\ slo.last.kind = "call"

\* C21: a call of the hook with a non-nil error raises the within-SLO counter
\* of the tenant exactly when the error is a gRPC resource-exhausted error or a
\* context cancellation (context.Canceled itself or wrapped), whatever the
\* response, the latency, the bytes processed and the configured SLO.
C21_ErrorWithinSLO ==
    (HookCalled /\ slo.last.err # NilError) =>
        /\ Raised("within", slo.last.tenant) \in {0, 1}
        /\ Raised("within", slo.last.tenant) = 1 <=>
              slo.last.err \in {GRPCError("ResourceExhausted"), ContextCanceled,
                                Wrapped(ContextCanceled)}

\* The hook was called with an error wrapping context.Canceled, a response of
\* status 500 and a latency not below the configured bound, and counted the
\* query as within the SLO.
C21_Witness ==
    /\ HookCalled
    /\ slo.last.err = Wrapped(ContextCanceled)
    /\ slo.last.resp = [StatusCode |-> 500]
    /\ slo.cfg.DurationSLO = 2
    /\ slo.last.latency = 2
    /\ Raised("within", slo.last.tenant) = 1

\* The SLO conditions as the claim states them.
SLOServerError == slo.last.resp # NilResponse /\ slo.last.resp.StatusCode >= 500
SLODurationMet == slo.cfg.DurationSLO > 0 /\ slo.last.latency < slo.cfg.DurationSLO
SLOThroughputMet ==
    /\ slo.cfg.ThroughputBytesSLO > 0
    /\ IF slo.last.latency = 0
       THEN 0 >= slo.cfg.ThroughputBytesSLO
       ELSE slo.last.bytesProcessed * Second >= slo.cfg.ThroughputBytesSLO * slo.last.latency

\* C22: a call of the hook without error never counts a response of status 500
\* or more as within the SLO; otherwise, with a duration or a throughput bound
\* configured, it counts the query exactly when the latency is below the
\* duration bound or the throughput (0 for a latency of 0) reaches the
\* throughput bound, and with no bound configured it always counts it; the
\* passedDuration expression equals DurationSLO > 0 /\ latency < DurationSLO.
C22_SuccessWithinSLO ==
    (HookCalled /\ slo.last.err = NilError) =>
        /\ Raised("within", slo.last.tenant) \in {0, 1}
        /\ SLOServerError => Raised("within", slo.last.tenant) = 0
        /\ (~SLOServerError /\ (slo.cfg.DurationSLO > 0 \/ slo.cfg.ThroughputBytesSLO > 0)) =>
              (Raised("within", slo.last.tenant) = 1 <=> (SLODurationMet \/ SLOThroughputMet))
        /\ (~SLOServerError /\ slo.cfg.DurationSLO <= 0 /\ slo.cfg.ThroughputBytesSLO <= 0) =>
              Raised("within", slo.last.tenant) = 1
        /\ passedDuration(slo.cfg, slo.last.latency) <=> SLODurationMet

\* Both bounds are configured and the query, which took as long as the duration
\* bound allows at most, was not counted: its throughput was below the bound.
C22_Witness ==
    /\ HookCalled
    /\ slo.last.err = NilError
    /\ slo.last.resp = [StatusCode |-> 200]
    /\ slo.cfg.DurationSLO = 2
    /\ slo.cfg.ThroughputBytesSLO = 2
    /\ slo.last.latency = 2
    /\ slo.last.bytesProcessed = 1
    /\ Raised("within", slo.last.tenant) = 0

\* C29: for every tenant the total counter is the number of calls of the hook
\* for the tenant and the within-SLO counter is at most the total counter; a
\* call raises the total counter of its tenant by one, its within-SLO counter
\* by at most one, and no counter of another tenant.
C29_CounterAccounting ==
    slo.kind = "slo" =>
        /\ \A t \in Tenants :
              /\ slo.metrics.all[t] = slo.invoked[t]
              /\ slo.metrics.within[t] <= slo.metrics.all[t]
        /\ slo.last.kind = "call" =>
              /\ Raised("all", slo.last.tenant) = 1
              /\ Raised("within", slo.last.tenant) \in {0, 1}
              /\ \A t \in Tenants \ {slo.last.tenant} :
                    Raised("all", t) = 0 /\ Raised("within", t) = 0

\* Two calls for one tenant, of which the last, an error outside the SLO, was
\* counted in the total only.
C29_Witness ==
    /\ HookCalled
    /\ slo.invoked["t1"] = 2
    /\ slo.last.tenant = "t1"
    /\ slo.last.err = OtherError
    /\ slo.metrics.all["t1"] = 2
    /\ slo.metrics.within["t1"] = 1

\* C23: when the version of the unified meta is not the supported version
\* string, processBlock returns the unsupported-block-version error and has
\* neither opened the block file nor aggregated attributes; when neither a live
\* nor a compacted meta exists it returns without having done so either.
C23_VersionGate ==
    (cli.kind = "returned" /\ cli.ret # "panic") =>
        /\ (/\ cli.in.live.err \in {"nil", ErrDoesNotExist}
            /\ cli.in.compacted.err \in {"nil", ErrDoesNotExist}
            /\ cli.unifiedMeta # NilMeta
            /\ cli.unifiedMeta.Version # "vParquet2") =>
              /\ cli.ret = "cannot scan block contents. unsupported block version"
              /\ \A k \in 1..Len(cli.steps) :
                    cli.steps[k] \in {"BlockMeta", "CompactedBlockMeta"}
        /\ (cli.in.live.meta = NilMeta /\ cli.in.compacted.meta = NilMeta) =>
              \A k \in 1..Len(cli.steps) : cli.steps[k] \in {"BlockMeta", "CompactedBlockMeta"}

\* A compacted vParquet3 block whose live meta is gone was refused, although
\* its file could have been opened and read.
C23_Witness ==
    /\ cli.kind = "returned"
    /\ cli.in.live = [meta |-> NilMeta, err |-> ErrDoesNotExist]
    /\ cli.in.compacted = [meta |-> BlockMetaOf("vParquet3"), err |-> "nil"]
    /\ cli.in.openErr = "nil"
    /\ cli.in.spanAggErr = "nil"
    /\ cli.ret = "cannot scan block contents. unsupported block version"
    /\ cli.steps = <<"BlockMeta", "CompactedBlockMeta">>

\* The seconds above 0 among those given, and the least and the greatest of a
\* non-empty set of them.
Positive(S) == { s \in S : s > 0 }
Earliest(S) == CHOOSE s \in S : \A u \in S : s <= u
Latest(S) == CHOOSE s \in S : \A u \in S : s >= u

\* C30: after any calls of ObjectAdded with non-empty ids on a fresh BlockMeta,
\* TotalObjects is the number of calls, MinID is the least and MaxID the
\* greatest id added in byte order (so MinID <= MaxID), StartTime is the
\* earliest start above 0 and EndTime the latest end above 0, each zero when
\* there is none, and the dedicated-columns hash is the one it was created with.
C30_ObjectAdded ==
    (bm.kind = "meta" /\ <<>> \notin bm.ids) =>
        /\ bm.meta.TotalObjects = bm.calls
        /\ bm.calls > 0 =>
              /\ bm.meta.MinID \in bm.ids
              /\ bm.meta.MaxID \in bm.ids
              /\ \A id \in bm.ids :
                    /\ bytes_Compare(bm.meta.MinID, id) <= 0
                    /\ bytes_Compare(bm.meta.MaxID, id) >= 0
        /\ bytes_Compare(bm.meta.MinID, bm.meta.MaxID) <= 0
        /\ bm.meta.StartTime = IF Positive(bm.starts) = {} THEN ZeroTime
                               ELSE time_Unix(Earliest(Positive(bm.starts)))
        /\ bm.meta.EndTime = IF Positive(bm.ends) = {} THEN ZeroTime
                             ELSE time_Unix(Latest(Positive(bm.ends)))
        /\ bm.meta.dedicatedColumnsHash = bm.hash
        /\ bm.meta.dedicatedColumnsHash = hashColumns(bm.meta.DedicatedColumns)

\* Three objects were added to a block with dedicated columns: an id and a
\* longer id it is a prefix of are the least and the greatest, one call gave no
\* start, and the ends 1 and 2 were both given.
C30_Witness ==
    /\ bm.kind = "meta"
    /\ bm.calls = 3
    /\ bm.ids = {<<1>>, <<1, 0>>}
    /\ bm.starts = {0, 2}
    /\ bm.ends = {1, 2}
    /\ bm.meta.TotalObjects = 3
    /\ bm.meta.MinID = <<1>>
    /\ bm.meta.MaxID = <<1, 0>>
    /\ bm.meta.StartTime = time_Unix(2)
    /\ bm.meta.EndTime = time_Unix(2)
    /\ bm.meta.dedicatedColumnsHash # <<"0">>

====
